---------------------------- MODULE Spec2Model ----------------------------
(***************************************************************************)
(* The revised primal simplex driver of HiGHS (HEkkPrimal): solve(), the   *)
(* two phase routines, rebuild(), iterate(), update() and cleanup().       *)
(*                                                                         *)
(* The driver is modelled statement by statement.  The numerical kernels   *)
(* it calls in the HEkk instance (factorisation, FTRAN/BTRAN, the ratio    *)
(* tests' arithmetic, the limit clock) deliver their results as inputs     *)
(* drawn from small sets: what CHUZC and CHUZR return,                     *)
(* whether a re-factorisation is rank deficient, how many basic variables  *)
(* are infeasible after an update, whether the limit clock has expired.    *)
(***************************************************************************)
EXTENDS Integers, Naturals, Sequences, FiniteSets, TLC

(***************************************************************************)
(* Bounds of the model.                                                    *)
(***************************************************************************)
\* options_.simplex_iteration_limit
IterationLimit == 2
\* simplex_info_.update_limit
UpdateLimit == 2
\* cap on num_flip_since_rebuild (the bound flips between two rebuilds)
MaxFlip == 1
\* cap on simplex_info_.num_primal_infeasibilities
MaxInfeas == 1
\* numRow_ of the LPs that have rows
MaxRow == 1
\* HEkkPrimal::check_iter, the iteration count from which iterate() raises
\* the debug level
check_iter == 1

NoVar == 0 - 1
NoRow == 0 - 1

VARIABLES
  \* ---- position of the (single) thread of control
  pc,                 \* where solve() stands
  routine,            \* phase routine being executed: "none", "solvePhase1", "solvePhase2"
  return_status,      \* HighsStatus returned by solve(), "none" while running
  \* ---- inputs of the call, constant during it
  numRow,             \* simplex_lp_.numRow_
  use_bound_perturbation,
  has_invert,         \* simplex_lp_status_.has_invert at entry
  data_ok,            \* the simplex data satisfy the invariants the debug checkers test
  \* ---- state of the engine (HEkkPrimal and the HEkk instance)
  solvePhase,
  scaled_model_status,
  solve_bailout,
  highs_debug_level,  \* options_.highs_debug_level is high enough for the checkers to run
  rebuild_reason,
  variable_in,
  row_out,
  has_fresh_rebuild,
  num_flip_since_rebuild,
  update_count,
  iteration_count,
  num_primal_infeasibilities,
  bounds_perturbed,
  allow_bound_perturbation,
  use_hyper_chuzc,
  computed_infeas,    \* the count a computation from scratch gives for the current basis and bounds
  lp,                 \* the simplex data: bounds, values, duals, basis, Devex framework (see NoLp)
  \* ---- history of the call, read by the properties only
  h_dirty,            \* a pivot or flip was applied since the last completed rebuild()
  h_chuzc,            \* the most recent CHUZC of this phase pass (see NoChuzc)
  h_update,           \* what the most recent iterate() applied: "none", "flip", "pivot"
  h_cleanup,          \* number of cleanup() calls of this solve()
  h_event,            \* the terminal decision taken by the last phase routine
  h_rebuild,          \* the most recent rebuild() of this phase pass (see NoRebuild)
  h_iterate_error,    \* the most recent iterate() set solvePhase = PHASE_ERROR
  h_bail_status,      \* scaled_model_status when the limit oracle reported, "none" before
  \* ---- calls of the utilities, outside solve()
  sort,               \* a call of maxheapsort(): arguments, locals and position (see NoSort)
  consistent          \* a call of isSolutionConsistent(): arguments and result (see NoConsistent)

engine == <<solvePhase, scaled_model_status, solve_bailout, highs_debug_level,
            rebuild_reason, variable_in, row_out, has_fresh_rebuild,
            num_flip_since_rebuild, update_count,
            iteration_count, num_primal_infeasibilities, bounds_perturbed,
            allow_bound_perturbation, use_hyper_chuzc, computed_infeas, lp>>

inputs == <<numRow, use_bound_perturbation, has_invert, data_ok>>

history == <<h_dirty, h_chuzc, h_update, h_cleanup, h_event,
             h_rebuild, h_iterate_error, h_bail_status>>

utilities == <<sort, consistent>>

vars == <<pc, routine, return_status, inputs, engine, history, utilities>>

\* no utility is being called
NoSort == [at |-> "none"]
NoConsistent == [at |-> "none"]

(***************************************************************************)
(* The engine state as one record, so that each routine of the source is   *)
(* an operator from records to records.                                    *)
(***************************************************************************)
Eng ==
  [ solvePhase |-> solvePhase,
    scaled_model_status |-> scaled_model_status,
    solve_bailout |-> solve_bailout,
    highs_debug_level |-> highs_debug_level,
    rebuild_reason |-> rebuild_reason,
    variable_in |-> variable_in,
    row_out |-> row_out,
    has_fresh_rebuild |-> has_fresh_rebuild,
    num_flip_since_rebuild |-> num_flip_since_rebuild,
    update_count |-> update_count,
    iteration_count |-> iteration_count,
    num_primal_infeasibilities |-> num_primal_infeasibilities,
    bounds_perturbed |-> bounds_perturbed,
    allow_bound_perturbation |-> allow_bound_perturbation,
    use_hyper_chuzc |-> use_hyper_chuzc,
    computed_infeas |-> computed_infeas,
    lp |-> lp,
    h_dirty |-> h_dirty,
    h_chuzc |-> h_chuzc,
    h_update |-> h_update,
    h_cleanup |-> h_cleanup,
    h_event |-> h_event,
    h_rebuild |-> h_rebuild,
    h_iterate_error |-> h_iterate_error,
    h_bail_status |-> h_bail_status ]

SetEng(e) ==
  /\ solvePhase' = e.solvePhase
  /\ scaled_model_status' = e.scaled_model_status
  /\ solve_bailout' = e.solve_bailout
  /\ highs_debug_level' = e.highs_debug_level
  /\ rebuild_reason' = e.rebuild_reason
  /\ variable_in' = e.variable_in
  /\ row_out' = e.row_out
  /\ has_fresh_rebuild' = e.has_fresh_rebuild
  /\ num_flip_since_rebuild' = e.num_flip_since_rebuild
  /\ update_count' = e.update_count
  /\ iteration_count' = e.iteration_count
  /\ num_primal_infeasibilities' = e.num_primal_infeasibilities
  /\ bounds_perturbed' = e.bounds_perturbed
  /\ allow_bound_perturbation' = e.allow_bound_perturbation
  /\ use_hyper_chuzc' = e.use_hyper_chuzc
  /\ computed_infeas' = e.computed_infeas
  /\ lp' = e.lp
  /\ h_dirty' = e.h_dirty
  /\ h_chuzc' = e.h_chuzc
  /\ h_update' = e.h_update
  /\ h_cleanup' = e.h_cleanup
  /\ h_event' = e.h_event
  /\ h_rebuild' = e.h_rebuild
  /\ h_iterate_error' = e.h_iterate_error
  /\ h_bail_status' = e.h_bail_status

(***************************************************************************)
(* The phase driver is followed on its own, with the arithmetic of the     *)
(* kernels as inputs: there the simplex data are left out.                 *)
(***************************************************************************)
NoLp == [num_col |-> 0]

(***************************************************************************)
(* What the history keeps of a CHUZC: the phase it ran in, whether it      *)
(* found a column, whether it ran on the data of a rebuild() with no pivot *)
(* and no flip since, whether bounds were perturbed when it ran, and       *)
(* whether cleanup() has run after it.                                     *)
(***************************************************************************)
NoChuzc ==
  [phase |-> "none", found |-> FALSE, fresh |-> FALSE, perturbed |-> FALSE,
   cleaned |-> FALSE]

(***************************************************************************)
(* What the history keeps of a rebuild(): whether it refactored the basis  *)
(* and how it ended ("rank_deficient", or the infeasibilities it counted:  *)
(* "zero" or "positive").                                                  *)
(***************************************************************************)
NoRebuild == [reinvert |-> FALSE, outcome |-> "none"]

(***************************************************************************)
(* The limit oracle.  The iteration limit is reached once iteration_count  *)
(* has grown to it; the time limit may be found expired at any poll (the   *)
(* input t).  A poll that reports records the bailout.                      *)
(***************************************************************************)
TimePoll == BOOLEAN

limitReached(e, t) == t \/ e.iteration_count >= IterationLimit

bailoutOnTimeIterations(e, t) ==
  IF e.solve_bailout \/ ~limitReached(e, t) THEN e
  ELSE [e EXCEPT !.solve_bailout = TRUE,
                 !.h_bail_status = e.scaled_model_status]

bailoutReturn(e, t) == bailoutOnTimeIterations(e, t)

(***************************************************************************)
(* The debug checkers.  They run only at a high debug level and report a   *)
(* logical error (TRUE) only when the data break an invariant they test.   *)
(***************************************************************************)
ekkDebugOkForSolve(e) == e.highs_debug_level /\ ~data_ok

debugPrimalSimplex(e) == e.highs_debug_level /\ ~data_ok

(***************************************************************************)
(* rebuild().  rank_deficiency is what computeFactor() reports when the    *)
(* factor is rebuilt.  computePrimal() and getBasicPrimalInfeasibility()   *)
(* replace the updated infeasibility count by the computed one.            *)
(***************************************************************************)
getBasicPrimalInfeasibility(e) ==
  [e EXCEPT !.num_primal_infeasibilities = e.computed_infeas]

\* rebuild() that never goes back from Phase 2 to Phase 1
rebuild_NoSwitchBack(e, rank_deficiency) ==
  LET reInvert == e.update_count > 0
      e0 == [e EXCEPT !.rebuild_reason = "NO",
                      !.h_rebuild = [reinvert |-> reInvert, outcome |-> "none"]]
  IN  IF reInvert /\ rank_deficiency
        THEN [e0 EXCEPT !.solvePhase = "ERROR",
                        !.h_rebuild.outcome = "rank_deficient"]
        ELSE
          LET e1 == IF reInvert THEN [e0 EXCEPT !.update_count = 0] ELSE e0
              e2 == getBasicPrimalInfeasibility(e1)
              e3 == IF e2.num_primal_infeasibilities > 0
                      THEN e2
                      ELSE IF e2.solvePhase = "PHASE_1"
                             THEN [e2 EXCEPT !.solvePhase = "PHASE_2"] ELSE e2
          IN  [e3 EXCEPT !.use_hyper_chuzc = (e3.solvePhase # "PHASE_1"),
                         !.num_flip_since_rebuild = 0,
                         !.has_fresh_rebuild = TRUE,
                         !.h_dirty = FALSE,
                         !.h_rebuild.outcome =
                            IF e3.num_primal_infeasibilities = 0
                              THEN "zero" ELSE "positive"]

\* rebuild() resetting update_count before the rank deficiency is examined
rebuild_ResetsUpdateCount(e, rank_deficiency) ==
  LET reInvert == e.update_count > 0
      e0 == [e EXCEPT !.rebuild_reason = "NO",
                      !.update_count = 0,
                      !.h_rebuild = [reinvert |-> reInvert, outcome |-> "none"]]
  IN  IF reInvert /\ rank_deficiency
        THEN [e0 EXCEPT !.solvePhase = "ERROR",
                        !.h_rebuild.outcome = "rank_deficient"]
        ELSE
          LET e2 == getBasicPrimalInfeasibility(e0)
              e3 == IF e2.num_primal_infeasibilities > 0
                      THEN IF e2.solvePhase = "PHASE_2"
                             THEN [e2 EXCEPT !.solvePhase = "PHASE_1"] ELSE e2
                      ELSE IF e2.solvePhase = "PHASE_1"
                             THEN [e2 EXCEPT !.solvePhase = "PHASE_2"] ELSE e2
          IN  [e3 EXCEPT !.use_hyper_chuzc = (e3.solvePhase # "PHASE_1"),
                         !.num_flip_since_rebuild = 0,
                         !.has_fresh_rebuild = TRUE,
                         !.h_dirty = FALSE,
                         !.h_rebuild.outcome =
                            IF e3.num_primal_infeasibilities = 0
                              THEN "zero" ELSE "positive"]

rebuild(e, rank_deficiency) ==
  LET reInvert == e.update_count > 0
      e0 == [e EXCEPT !.rebuild_reason = "NO",
                      !.h_rebuild = [reinvert |-> reInvert, outcome |-> "none"]]
  IN  IF reInvert /\ rank_deficiency
        THEN [e0 EXCEPT !.solvePhase = "ERROR",
                        !.h_rebuild.outcome = "rank_deficient"]
        ELSE
          LET e1 == IF reInvert THEN [e0 EXCEPT !.update_count = 0] ELSE e0
              e2 == getBasicPrimalInfeasibility(e1)
              e3 == IF e2.num_primal_infeasibilities > 0
                      THEN IF e2.solvePhase = "PHASE_2"
                             THEN [e2 EXCEPT !.solvePhase = "PHASE_1"] ELSE e2
                      ELSE IF e2.solvePhase = "PHASE_1"
                             THEN [e2 EXCEPT !.solvePhase = "PHASE_2"] ELSE e2
          IN  [e3 EXCEPT !.use_hyper_chuzc = (e3.solvePhase # "PHASE_1"),
                         !.num_flip_since_rebuild = 0,
                         !.has_fresh_rebuild = TRUE,
                         !.h_dirty = FALSE,
                         !.h_rebuild.outcome =
                            IF e3.num_primal_infeasibilities = 0
                              THEN "zero" ELSE "positive"]

(***************************************************************************)
(* cleanup().  initialiseBound() restores the unperturbed bounds, so it    *)
(* clears bounds_perturbed; infeas is what computePrimal() and             *)
(* computeSimplexPrimalInfeasible() then find.                             *)
(***************************************************************************)
initialiseBound(e) == [e EXCEPT !.bounds_perturbed = FALSE]

\* cleanup() that leaves allow_bound_perturbation as it finds it
cleanup_KeepsAllow(e, infeas) ==
  LET e1 == initialiseBound(e)
  IN  [e1 EXCEPT !.computed_infeas = infeas,
                 !.num_primal_infeasibilities = infeas,
                 !.h_cleanup = e.h_cleanup + 1,
                 !.h_chuzc.cleaned = TRUE]

\* cleanup() without the initialiseBound() call: the shifts stay in place
cleanup_KeepsPerturbed(e, infeas) ==
  LET e2 == [e EXCEPT !.allow_bound_perturbation = FALSE]
  IN  [e2 EXCEPT !.computed_infeas = infeas,
                 !.num_primal_infeasibilities = infeas,
                 !.h_cleanup = e.h_cleanup + 1,
                 !.h_chuzc.cleaned = TRUE]

cleanup(e, infeas) ==
  LET e1 == initialiseBound(e)
      e2 == [e1 EXCEPT !.allow_bound_perturbation = FALSE]
  IN  [e2 EXCEPT !.computed_infeas = infeas,
                 !.num_primal_infeasibilities = infeas,
                 !.h_cleanup = e.h_cleanup + 1,
                 !.h_chuzc.cleaned = TRUE]

\* Removing bound shifts may leave any number of rows infeasible; with no
\* shift to remove, the values computed are those of the last rebuild().
CleanupInfeas(e) ==
  IF e.bounds_perturbed THEN 0 .. numRow ELSE {e.computed_infeas}

(***************************************************************************)
(* The steps of iterate().                                                 *)
(***************************************************************************)
chuzc(e, v) ==
  [e EXCEPT !.variable_in = v,
            !.h_chuzc = [phase |-> e.solvePhase, found |-> v # NoVar,
                         fresh |-> ~e.h_dirty,
                         perturbed |-> e.bounds_perturbed,
                         cleaned |-> FALSE]]

assessVariableIn(e, theta_dual_sign_ok) ==
  IF theta_dual_sign_ok THEN e ELSE [e EXCEPT !.solvePhase = "ERROR"]

phase1ChooseRow(e, r) == [e EXCEPT !.row_out = r]

chooseRow(e, r) == [e EXCEPT !.row_out = r]

considerBoundSwap(e, flip) ==
  LET e1 == IF flip THEN [e EXCEPT !.row_out = NoRow] ELSE e
      pivot_or_flipped == e1.row_out >= 0 \/ flip
  IN  IF e1.solvePhase = "PHASE_2" /\ ~pivot_or_flipped
        THEN [e1 EXCEPT !.rebuild_reason = "POSSIBLY_PRIMAL_UNBOUNDED"]
        ELSE e1

\* updateVerify() that asks for a reinversion whatever update_count is
updateVerify_AnyCount(e, numerical_trouble) ==
  IF numerical_trouble
    THEN [e EXCEPT !.rebuild_reason = "POSSIBLY_SINGULAR_BASIS"]
    ELSE e

updateVerify(e, numerical_trouble) ==
  IF numerical_trouble /\ e.update_count > 0
    THEN [e EXCEPT !.rebuild_reason = "POSSIBLY_SINGULAR_BASIS"]
    ELSE e

assessPivot(e, numerical_trouble) == updateVerify(e, numerical_trouble)

(***************************************************************************)
(* update() and the routines it calls.  The input u carries what the       *)
(* arithmetic of this update delivers: the infeasibility count after       *)
(* phase1UpdatePrimal() (count1), the number of infeasible rows met by     *)
(* phase2UpdatePrimal() (found2), whether the entering value violates a    *)
(* bound, whether updateFactor() asks for a reinversion, the column left   *)
(* in variable_in by the closing hyperChooseColumn() (next_in) and the     *)
(* count a later computation from scratch would give (computed).           *)
(***************************************************************************)
phase1UpdatePrimal(e, count1) ==
  [e EXCEPT !.num_primal_infeasibilities = count1]

phase2UpdatePrimal(e, found2) ==
  IF found2 > 0
    THEN [e EXCEPT !.num_primal_infeasibilities = e.num_primal_infeasibilities + found2,
                   !.rebuild_reason = "PRIMAL_INFEASIBLE_IN_PRIMAL_SIMPLEX"]
    ELSE e

considerInfeasibleValueIn(e, value_in_infeasible) ==
  IF ~value_in_infeasible THEN e
  ELSE IF e.solvePhase = "PHASE_1"
    THEN [e EXCEPT !.num_primal_infeasibilities = e.num_primal_infeasibilities + 1]
  ELSE IF e.allow_bound_perturbation
    THEN [e EXCEPT !.bounds_perturbed = TRUE]
  ELSE [e EXCEPT !.num_primal_infeasibilities = e.num_primal_infeasibilities + 1,
                 !.rebuild_reason = "PRIMAL_INFEASIBLE_IN_PRIMAL_SIMPLEX"]

\* HEkk::updatePivots(): the basis changes, so the data are no longer fresh
updatePivots(e) ==
  [e EXCEPT !.update_count = e.update_count + 1,
            !.has_fresh_rebuild = FALSE]

\* HEkk::updateFactor(): may hand back a reason to reinvert
updateFactor(e, synthetic) ==
  IF synthetic THEN [e EXCEPT !.rebuild_reason = "SYNTHETIC_CLOCK_SAYS_INVERT"]
  ELSE e

hyperChooseColumn(e, next_in) ==
  IF ~e.use_hyper_chuzc THEN e ELSE [e EXCEPT !.variable_in = next_in]

update(e, u) ==
  LET flipped == e.row_out < 0
      e1 == IF e.solvePhase = "PHASE_1"
              THEN phase1UpdatePrimal(e, u.count1)
              ELSE phase2UpdatePrimal(e, u.found2)
  IN  IF flipped
        THEN [e1 EXCEPT !.num_flip_since_rebuild = e.num_flip_since_rebuild + 1,
                        !.computed_infeas = u.computed,
                        !.h_dirty = TRUE,
                        !.h_update = "flip"]
        ELSE
          LET e2 == considerInfeasibleValueIn(e1, u.value_in_infeasible)
              e3 == updatePivots(e2)
              e4 == updateFactor(e3, u.synthetic)
              e5 == IF e4.update_count >= UpdateLimit
                      THEN [e4 EXCEPT !.rebuild_reason = "UPDATE_LIMIT_REACHED"]
                      ELSE e4
              e6 == [e5 EXCEPT !.iteration_count = e.iteration_count + 1,
                               !.computed_infeas = u.computed,
                               !.h_dirty = TRUE,
                               !.h_update = "pivot"]
          IN  hyperChooseColumn(e6, u.next_in)

(***************************************************************************)
(* iterate().  The input in carries what the kernels deliver: the column   *)
(* CHUZC returns, whether the dual sign check passes, the row CHUZR        *)
(* returns, whether the step is a bound flip, whether the pivot shows      *)
(* numerical trouble, and the input of update().                           *)
(***************************************************************************)
iterate(e, in) ==
  LET check == e.iteration_count >= check_iter
      e0 == [e EXCEPT !.h_update = "none",
                      !.h_iterate_error = FALSE,
                      !.highs_debug_level = e.highs_debug_level \/ check]
      error(x) == [x EXCEPT !.solvePhase = "ERROR", !.h_iterate_error = TRUE]
      e1 == chuzc(e0, in.variable_in)
      e2 == assessVariableIn(e1, in.sign_ok)
      e3 == IF e2.solvePhase = "PHASE_1"
              THEN phase1ChooseRow(e2, in.row_out)
              ELSE chooseRow(e2, in.row_out)
      e4 == considerBoundSwap(e3, in.flip)
      e5 == IF e4.row_out >= 0 THEN assessPivot(e4, in.trouble) ELSE e4
      e6 == update(e5, in.upd)
  IN  IF debugPrimalSimplex(e0) THEN error(e0)
      ELSE IF e1.variable_in = NoVar
        THEN [e1 EXCEPT !.rebuild_reason = "POSSIBLY_OPTIMAL"]
      ELSE IF e2.solvePhase = "ERROR" THEN error(e2)
      ELSE IF e3.solvePhase = "PHASE_1" /\ e3.row_out < 0 THEN error(e3)
      ELSE IF e4.rebuild_reason = "POSSIBLY_PRIMAL_UNBOUNDED" THEN e4
      ELSE IF e5.rebuild_reason # "NO" THEN e5
      ELSE IF e6.num_primal_infeasibilities = 0 /\ e6.solvePhase = "PHASE_1"
        THEN [e6 EXCEPT !.rebuild_reason = "UPDATE_LIMIT_REACHED"]
      ELSE e6

(***************************************************************************)
(* The inputs iterate() can meet in engine state e.                        *)
(***************************************************************************)
\* The driver only tests whether CHUZC found a column and CHUZR a row:
\* index 0 stands for the column, or the row, that was found.
Vars == {0}
Rows == {0}

NoUpdate ==
  [count1 |-> 0, found2 |-> 0, value_in_infeasible |-> FALSE,
   synthetic |-> FALSE, next_in |-> NoVar, computed |-> 0]

Quiet ==
  [variable_in |-> NoVar, sign_ok |-> TRUE,
   row_out |-> NoRow, flip |-> FALSE, trouble |-> FALSE, upd |-> NoUpdate]

UpdateInputs(e, flipped) ==
  LET phase1 == e.solvePhase = "PHASE_1"
      after(u) ==
        IF phase1
          THEN u.count1 + (IF u.value_in_infeasible THEN 1 ELSE 0)
          ELSE e.num_primal_infeasibilities + u.found2
               + (IF u.value_in_infeasible /\ ~e.allow_bound_perturbation
                    THEN 1 ELSE 0)
  IN  { u \in [ count1 : IF phase1 THEN 0 .. MaxInfeas ELSE {0},
                found2 : IF phase1 THEN {0} ELSE 0 .. MaxInfeas,
                value_in_infeasible : IF flipped THEN {FALSE} ELSE BOOLEAN,
                synthetic : IF flipped THEN {FALSE} ELSE BOOLEAN,
                next_in : IF flipped \/ phase1 THEN {NoVar} ELSE {NoVar} \cup Vars,
                computed : 0 .. numRow ] :
          after(u) <= MaxInfeas }

IterateInputs(e) ==
  LET phase1 == e.solvePhase = "PHASE_1"
      in(v, r) == [Quiet EXCEPT !.variable_in = v, !.row_out = r]
  IN       { Quiet }
      \cup { [in(v, NoRow) EXCEPT !.sign_ok = FALSE] : v \in Vars }
      \cup { in(v, NoRow) : v \in Vars }
      \cup { [in(v, r) EXCEPT !.trouble = TRUE] :
               v \in Vars, r \in IF e.update_count > 0 THEN Rows ELSE {} }
      \cup { [in(v, r) EXCEPT !.trouble = t, !.upd = u] :
               v \in Vars, r \in Rows,
               t \in IF e.update_count > 0 THEN {FALSE} ELSE BOOLEAN,
               u \in UpdateInputs(e, FALSE) }
      \cup { [in(v, r) EXCEPT !.flip = TRUE, !.upd = u] :
               v \in Vars,
               r \in IF phase1 THEN Rows ELSE {NoRow},
               u \in IF e.num_flip_since_rebuild < MaxFlip
                       THEN UpdateInputs(e, TRUE) ELSE {} }

(***************************************************************************)
(* initialise(): the state solve() is entered in.                          *)
(***************************************************************************)
Init ==
  /\ sort = NoSort
  /\ consistent = NoConsistent
  /\ pc = "idle"
  /\ routine = "none"
  /\ return_status = "none"
  /\ numRow \in {0, MaxRow}
  /\ use_bound_perturbation \in BOOLEAN
  /\ has_invert \in BOOLEAN
  /\ data_ok \in BOOLEAN
  /\ highs_debug_level \in BOOLEAN
  /\ solvePhase = "UNKNOWN"
  /\ scaled_model_status = "NOTSET"
  /\ solve_bailout = FALSE
  /\ rebuild_reason = "NO"
  /\ variable_in \in {NoVar} \cup Vars
  /\ row_out = NoRow
  /\ has_fresh_rebuild = FALSE
  /\ num_flip_since_rebuild = 0
  /\ update_count \in {0, 1}
  /\ iteration_count \in {0, IterationLimit}
  /\ computed_infeas \in 0 .. numRow
  /\ num_primal_infeasibilities = computed_infeas
  /\ bounds_perturbed = FALSE
  /\ allow_bound_perturbation \in BOOLEAN
  /\ use_hyper_chuzc = FALSE
  /\ lp = NoLp
  /\ h_dirty = FALSE
  /\ h_chuzc = NoChuzc
  /\ h_update = "none"
  /\ h_cleanup = 0
  /\ h_event = "none"
  /\ h_rebuild = NoRebuild
  /\ h_iterate_error = FALSE
  /\ h_bail_status = "none"

(***************************************************************************)
(* solve(), from its entry to the major solving loop.                      *)
(***************************************************************************)
\* solve() polling the limit oracle before it examines the number of rows
solveEntry_PollFirst(e, t) ==
  LET e1 == bailoutOnTimeIterations(e, t)
      e2 == IF use_bound_perturbation
              THEN [e1 EXCEPT !.num_primal_infeasibilities = e.computed_infeas]
              ELSE e1
      e3 == [e2 EXCEPT !.solvePhase =
                IF e2.num_primal_infeasibilities > 0 THEN "PHASE_1" ELSE "PHASE_2"]
  IN  IF e1.solve_bailout THEN [eng |-> e1, ret |-> "Warning"]
      ELSE IF numRow <= 0 THEN [eng |-> e, ret |-> "Error"]
      ELSE IF ~has_invert THEN [eng |-> e1, ret |-> "Error"]
      ELSE IF ekkDebugOkForSolve(e3) THEN [eng |-> e3, ret |-> "Error"]
      ELSE [eng |-> e3, ret |-> "none"]

solveEntry(e, t) ==
  LET e1 == bailoutOnTimeIterations(e, t)
      e2 == IF use_bound_perturbation
              THEN [e1 EXCEPT !.num_primal_infeasibilities = e.computed_infeas]
              ELSE e1
      e3 == [e2 EXCEPT !.solvePhase =
                IF e2.num_primal_infeasibilities > 0 THEN "PHASE_1" ELSE "PHASE_2"]
  IN  IF numRow <= 0 THEN [eng |-> e, ret |-> "Error"]
      ELSE IF e1.solve_bailout THEN [eng |-> e1, ret |-> "Warning"]
      ELSE IF ~has_invert THEN [eng |-> e1, ret |-> "Error"]
      ELSE IF ekkDebugOkForSolve(e3) THEN [eng |-> e3, ret |-> "Error"]
      ELSE [eng |-> e3, ret |-> "none"]

Solve ==
  /\ pc = "idle"
  /\ \E t \in TimePoll :
       LET r == solveEntry(Eng, t)
       IN  /\ SetEng(r.eng)
           /\ return_status' = r.ret
           /\ pc' = IF r.ret = "none" THEN "major" ELSE "returned"
  /\ UNCHANGED <<routine, inputs, utilities>>

(***************************************************************************)
(* The head of the major solving loop: the phase routine to run.           *)
(***************************************************************************)
MajorLoop ==
  /\ pc = "major"
  /\ IF solvePhase \in {"PHASE_1", "PHASE_2"}
       THEN /\ routine' = IF solvePhase = "PHASE_1" THEN "solvePhase1"
                                                    ELSE "solvePhase2"
            /\ pc' = "phase_start"
            /\ UNCHANGED <<return_status, engine>>
       ELSE /\ scaled_model_status' = "SOLVE_ERROR"
            /\ return_status' = "Error"
            /\ pc' = "returned"
            /\ routine' = "none"
            /\ UNCHANGED <<solvePhase, solve_bailout, highs_debug_level,
                           rebuild_reason,
                           variable_in, row_out, has_fresh_rebuild,
                           num_flip_since_rebuild,
                           update_count, iteration_count,
                           num_primal_infeasibilities, bounds_perturbed,
                           allow_bound_perturbation, use_hyper_chuzc,
                           computed_infeas, lp>>
  /\ UNCHANGED <<inputs, utilities, history>>

(***************************************************************************)
(* solvePhase1() and solvePhase2(), piece by piece.                        *)
(***************************************************************************)
\* entry of a phase routine, up to its main solving structure
PhaseStart ==
  /\ pc = "phase_start"
  /\ \E t \in TimePoll :
       LET e1 == bailoutReturn(Eng, t)
       IN  /\ SetEng([e1 EXCEPT !.h_chuzc = NoChuzc, !.h_rebuild = NoRebuild])
           /\ pc' = IF e1.solve_bailout THEN "after_phase" ELSE "rebuild"
  /\ UNCHANGED <<routine, return_status, inputs, utilities>>

Rebuild ==
  /\ pc = "rebuild"
  /\ \E rank_deficiency \in BOOLEAN :
       SetEng(rebuild(Eng, rank_deficiency))
  /\ pc' = "after_rebuild"
  /\ UNCHANGED <<routine, return_status, inputs, utilities>>

\* afterRebuild() polling the limit oracle without acting on its report
afterRebuild_IgnoresBailout(e, t) ==
  LET e1 == bailoutOnTimeIterations(e, t)
      other == IF routine = "solvePhase1" THEN "PHASE_2" ELSE "PHASE_1"
  IN  IF e.solvePhase = "ERROR" THEN [eng |-> e, pc |-> "after_phase"]
      ELSE IF e1.solvePhase = other THEN [eng |-> e1, pc |-> "phase_end"]
      ELSE [eng |-> e1, pc |-> "iterate"]

\* the statements that follow rebuild() in the outer loop
afterRebuild(e, t) ==
  LET e1 == bailoutOnTimeIterations(e, t)
      other == IF routine = "solvePhase1" THEN "PHASE_2" ELSE "PHASE_1"
  IN  IF e.solvePhase = "ERROR" THEN [eng |-> e, pc |-> "after_phase"]
      ELSE IF e1.solve_bailout THEN [eng |-> e1, pc |-> "after_phase"]
      ELSE IF e1.solvePhase = other THEN [eng |-> e1, pc |-> "phase_end"]
      ELSE [eng |-> e1, pc |-> "iterate"]

AfterRebuild ==
  /\ pc = "after_rebuild"
  /\ \E t \in TimePoll :
       LET r == afterRebuild(Eng, t)
       IN  SetEng(r.eng) /\ pc' = r.pc
  /\ UNCHANGED <<routine, return_status, inputs, utilities>>

Iterate ==
  /\ pc = "iterate"
  /\ \E in \in IterateInputs(Eng) : SetEng(iterate(Eng, in))
  /\ pc' = "after_iterate"
  /\ UNCHANGED <<routine, return_status, inputs, utilities>>

\* afterIterate() whose inner loop goes on whatever rebuild_reason holds
afterIterate_IgnoresReason(e, t) ==
  LET e1 == bailoutOnTimeIterations(e, t)
  IN  IF e1.solve_bailout THEN [eng |-> e1, pc |-> "after_phase"]
      ELSE IF e1.solvePhase = "ERROR" THEN [eng |-> e1, pc |-> "after_phase"]
      ELSE IF e1.rebuild_reason \in {"NO", "UPDATE_LIMIT_REACHED"}
        THEN [eng |-> e1, pc |-> "iterate"]
      ELSE IF e1.has_fresh_rebuild /\ e1.num_flip_since_rebuild = 0
        THEN [eng |-> e1, pc |-> "phase_end"]
      ELSE [eng |-> e1, pc |-> "rebuild"]

\* afterIterate() without the test for PHASE_ERROR
afterIterate_ContinuesOnError(e, t) ==
  LET e1 == bailoutOnTimeIterations(e, t)
  IN  IF e1.solve_bailout THEN [eng |-> e1, pc |-> "after_phase"]
      ELSE IF e1.rebuild_reason = "NO" THEN [eng |-> e1, pc |-> "iterate"]
      ELSE IF e1.has_fresh_rebuild /\ e1.num_flip_since_rebuild = 0
        THEN [eng |-> e1, pc |-> "phase_end"]
      ELSE [eng |-> e1, pc |-> "rebuild"]

\* afterIterate() without the test of has_fresh_rebuild and
\* num_flip_since_rebuild: any rebuild reason ends the phase
afterIterate_NoFreshTest(e, t) ==
  LET e1 == bailoutOnTimeIterations(e, t)
  IN  IF e1.solve_bailout THEN [eng |-> e1, pc |-> "after_phase"]
      ELSE IF e1.solvePhase = "ERROR" THEN [eng |-> e1, pc |-> "after_phase"]
      ELSE IF e1.rebuild_reason = "NO" THEN [eng |-> e1, pc |-> "iterate"]
      ELSE [eng |-> e1, pc |-> "phase_end"]

\* the statements that follow iterate() in the inner loop, and the test
\* that closes the outer loop
afterIterate(e, t) ==
  LET e1 == bailoutOnTimeIterations(e, t)
  IN  IF e1.solve_bailout THEN [eng |-> e1, pc |-> "after_phase"]
      ELSE IF e1.solvePhase = "ERROR" THEN [eng |-> e1, pc |-> "after_phase"]
      ELSE IF e1.rebuild_reason = "NO" THEN [eng |-> e1, pc |-> "iterate"]
      ELSE IF e1.has_fresh_rebuild /\ e1.num_flip_since_rebuild = 0
        THEN [eng |-> e1, pc |-> "phase_end"]
      ELSE [eng |-> e1, pc |-> "rebuild"]

AfterIterate ==
  /\ pc = "after_iterate"
  /\ \E t \in TimePoll :
       LET r == afterIterate(Eng, t)
       IN  SetEng(r.eng) /\ pc' = r.pc
  /\ UNCHANGED <<routine, return_status, inputs, utilities>>

\* the tail of solvePhase1()
solvePhase1End(e) ==
  IF debugPrimalSimplex(e) THEN [e EXCEPT !.solvePhase = "ERROR", !.h_event = "error"]
  ELSE IF e.variable_in < 0
    THEN [e EXCEPT !.scaled_model_status = "PRIMAL_INFEASIBLE",
                   !.solvePhase = "EXIT",
                   !.h_event = "infeasible"]
  ELSE [e EXCEPT !.h_event = "phase_change"]

\* the tail of solvePhase2() with no test of bounds_perturbed: cleanup() and
\* reassessment whenever no leaving row and no flip is found
solvePhase2End_CleanupAlways(e, infeas) ==
  IF debugPrimalSimplex(e) THEN [e EXCEPT !.solvePhase = "ERROR", !.h_event = "error"]
  ELSE IF e.solvePhase = "PHASE_1" THEN [e EXCEPT !.h_event = "phase_change"]
  ELSE IF e.variable_in = NoVar
    THEN LET c == cleanup(e, infeas)
         IN  IF c.num_primal_infeasibilities > 0
               THEN [c EXCEPT !.solvePhase = "CLEANUP", !.h_event = "cleanup"]
               ELSE [c EXCEPT !.solvePhase = "OPTIMAL",
                              !.scaled_model_status = "OPTIMAL",
                              !.h_event = "optimal"]
  ELSE [cleanup(e, infeas) EXCEPT !.h_event = "reassess",
                                  !.scaled_model_status = "PRIMAL_UNBOUNDED"]

\* the tail of solvePhase2()
solvePhase2End(e, infeas) ==
  IF debugPrimalSimplex(e) THEN [e EXCEPT !.solvePhase = "ERROR", !.h_event = "error"]
  ELSE IF e.solvePhase = "PHASE_1" THEN [e EXCEPT !.h_event = "phase_change"]
  ELSE IF e.variable_in = NoVar
    THEN LET c == cleanup(e, infeas)
         IN  IF c.num_primal_infeasibilities > 0
               THEN [c EXCEPT !.solvePhase = "CLEANUP", !.h_event = "cleanup"]
               ELSE [c EXCEPT !.solvePhase = "OPTIMAL",
                              !.scaled_model_status = "OPTIMAL",
                              !.h_event = "optimal"]
  ELSE LET x == IF e.bounds_perturbed
                  THEN [cleanup(e, infeas) EXCEPT !.h_event = "reassess"]
                  ELSE [e EXCEPT !.solvePhase = "EXIT",
                                 !.scaled_model_status =
                                    IF e.scaled_model_status = "PRIMAL_INFEASIBLE"
                                      THEN "PRIMAL_DUAL_INFEASIBLE"
                                      ELSE "PRIMAL_UNBOUNDED",
                                 !.h_event = "unbounded"]
       IN  [x EXCEPT !.scaled_model_status = "PRIMAL_UNBOUNDED"]

PhaseEnd ==
  /\ pc = "phase_end"
  /\ IF routine = "solvePhase1"
       THEN SetEng(solvePhase1End(Eng))
       ELSE \E infeas \in CleanupInfeas(Eng) :
              SetEng(solvePhase2End(Eng, infeas))
  /\ pc' = "after_phase"
  /\ UNCHANGED <<routine, return_status, inputs, utilities>>

(***************************************************************************)
(* solve() after the phase routine has returned, and its closing lines.    *)
(***************************************************************************)
solveAfterPhase(e) ==
  IF e.solve_bailout THEN [eng |-> e, ret |-> "Warning", pc |-> "returned"]
  ELSE IF e.solvePhase = "ERROR"
    THEN [eng |-> [e EXCEPT !.scaled_model_status = "SOLVE_ERROR"],
          ret |-> "Error", pc |-> "returned"]
  ELSE IF \/ e.solvePhase = "EXIT"
          \/ e.solvePhase = "PHASE_1" /\ e.scaled_model_status = "DUAL_INFEASIBLE"
          \/ e.solvePhase = "CLEANUP"
          \/ e.solvePhase = "OPTIMAL"
    THEN [eng |-> e, ret |-> "none", pc |-> "finish"]
  ELSE [eng |-> e, ret |-> "none", pc |-> "major"]

AfterPhase ==
  /\ pc = "after_phase"
  /\ LET r == solveAfterPhase(Eng)
     IN  SetEng(r.eng) /\ return_status' = r.ret /\ pc' = r.pc
  /\ routine' = "none"
  /\ UNCHANGED <<inputs, utilities>>

solveFinish(e) ==
  LET e1 == IF e.solvePhase = "OPTIMAL"
              THEN [e EXCEPT !.scaled_model_status = "OPTIMAL"] ELSE e
  IN  [eng |-> e1, ret |-> IF ekkDebugOkForSolve(e1) THEN "Error" ELSE "OK"]

Finish ==
  /\ pc = "finish"
  /\ LET r == solveFinish(Eng)
     IN  SetEng(r.eng) /\ return_status' = r.ret
  /\ pc' = "returned"
  /\ UNCHANGED <<routine, inputs, utilities>>

Next ==
  \/ Solve
  \/ MajorLoop
  \/ PhaseStart
  \/ Rebuild
  \/ AfterRebuild
  \/ Iterate
  \/ AfterIterate
  \/ PhaseEnd
  \/ AfterPhase
  \/ Finish


Spec == Init /\ [][Next]_vars

(***************************************************************************)
(* The simplex data.                                                       *)
(*                                                                         *)
(* The second specification follows solve() on the arrays themselves: the  *)
(* bounds and their shifts, the values, duals and costs, the basis, the    *)
(* set of nonbasic free columns and the Devex framework.  What remains an  *)
(* input is the linear algebra of the factored basis: the pivotal column   *)
(* (FTRAN), the pivotal row (BTRAN and PRICE) and the values and duals a   *)
(* computation from scratch delivers.                                      *)
(*                                                                         *)
(* Numbers are integers.  Entries of the pivotal column and row are kept   *)
(* in halves (an entry a stands for a/2), Devex weights in units of        *)
(* 1/WeightUnit, rounded down.  Only inputs whose primal and dual steps    *)
(* are integers again are followed.                                        *)
(***************************************************************************)
HIGHS_CONST_INF == 1000
primal_feasibility_tolerance == 1
dual_feasibility_tolerance == 1
\* framework parameters of Devex: a stored weight is bad when it exceeds
\* bad_devex_weight_factor times the pivot weight
bad_devex_weight_factor == 3
\* the number of bad weights after which the framework is reset
allowed_num_bad_devex_weight == 0

\* simplex_lp_.numCol_ of the LPs followed
MaxCol == 2
\* the upper bound of a boxed variable (its lower bound is 0)
BoxWidth == 4
\* cap on the magnitude of the values of basic variables
MaxVal == 6
\* cap on the magnitude of the duals
MaxDual == 4
\* Devex weights are kept in units of 1/WeightUnit
WeightUnit == 4

Abs(x) == IF x < 0 THEN 0 - x ELSE x

Max(x, y) == IF x < y THEN y ELSE x

IsInf(x) == x >= HIGHS_CONST_INF \/ x <= 0 - HIGHS_CONST_INF

\* floating point addition: an infinite term absorbs a finite one
Plus(x, y) ==
  IF x >= HIGHS_CONST_INF \/ y >= HIGHS_CONST_INF THEN HIGHS_CONST_INF
  ELSE IF x <= 0 - HIGHS_CONST_INF \/ y <= 0 - HIGHS_CONST_INF
    THEN 0 - HIGHS_CONST_INF
  ELSE x + y

Minus(x, y) == Plus(x, 0 - y)

\* the quotient x / y of integers, for a divisor of either sign
Quot(x, y) == IF y < 0 THEN (0 - x) \div (0 - y) ELSE x \div y

\* the integer square root, rounded down
Sqrt(n) == CHOOSE r \in 0 .. n : r * r <= n /\ n < (r + 1) * (r + 1)

VarsOf(d) == 0 .. (d.num_col + d.num_row - 1)

RowsOf(d) == 0 .. (d.num_row - 1)

(***************************************************************************)
(* The LPs followed.  A variable is free, bounded below by 0, or boxed in  *)
(* [0, BoxWidth].  The data are those of a basis the caller has set up:    *)
(* a nonbasic variable sits at a bound (a free one at 0, with move 0), a   *)
(* basic one has move 0, and base_lower/base_upper are the bounds of the   *)
(* basic variables.                                                        *)
(***************************************************************************)
VarTypes == {"free", "lower", "boxed"}

LowerOf(t) == IF t = "free" THEN 0 - HIGHS_CONST_INF ELSE 0

UpperOf(t) == IF t = "boxed" THEN BoxWidth ELSE HIGHS_CONST_INF

\* a reset that takes every variable into the reference framework
resetDevex_AllInReference(d) ==
  [d EXCEPT !.devex_weight = [v \in VarsOf(d) |-> WeightUnit],
            !.devex_index = [v \in VarsOf(d) |-> 1],
            !.num_bad_devex_weight = 0]

\* HEkkPrimal::resetDevex
resetDevex(d) ==
  [d EXCEPT !.devex_weight = [v \in VarsOf(d) |-> WeightUnit],
            !.devex_index = [v \in VarsOf(d) |-> d.nonbasicFlag[v] * d.nonbasicFlag[v]],
            !.num_bad_devex_weight = 0]

\* the steps of an update(), in the order they were taken
NoOrder == << >>

NoLast ==
  [kind |-> "none", q |-> NoVar, move_in |-> 0, member |-> FALSE,
   v_out |-> NoVar, reset |-> FALSE, would_be |-> 0, entered_done |-> FALSE]

\* measures |dual| / weight are kept in units of 1 / MeasureScale of the
\* source's, so that a weight of WeightUnit or 2 * WeightUnit divides exactly
MeasureScale == 2 * WeightUnit

\* the measure -1 that hyperChooseColumnClear() gives the non-candidates
NoMeasure == 0 - (MeasureScale \div WeightUnit)

\* the records of hyper-sparse CHUZC before the first rebuild()
NoHyper ==
  [initialise_hyper_chuzc |-> FALSE,
   done_next_chuzc |-> FALSE,
   hyper_chuzc_candidate |-> << >>,
   max_hyper_chuzc_non_candidate_measure |-> NoMeasure,
   max_changed_measure_value |-> 0,
   max_changed_measure_column |-> NoVar]

\* the data as initialise() leaves them, for variables of types type, the
\* basic variables basic (one per row) and the nonbasic boxed variables in
\* at_upper at their upper bound
MakeLp(n_col, n_row, type, basic, at_upper) ==
  LET V == 0 .. (n_col + n_row - 1)
      isBasic(v) == \E r \in 0 .. (n_row - 1) : basic[r] = v
      move(v) == IF isBasic(v) \/ type[v] = "free" THEN 0
                 ELSE IF v \in at_upper THEN 0 - 1 ELSE 1
      d == [ num_col |-> n_col,
             num_row |-> n_row,
             lpLower |-> [v \in V |-> LowerOf(type[v])],
             lpUpper |-> [v \in V |-> UpperOf(type[v])],
             workLower |-> [v \in V |-> LowerOf(type[v])],
             workUpper |-> [v \in V |-> UpperOf(type[v])],
             workLowerShift |-> [v \in V |-> 0],
             workUpperShift |-> [v \in V |-> 0],
             workValue |-> [v \in V |-> IF move(v) < 0 THEN UpperOf(type[v]) ELSE 0],
             workDual |-> [v \in V |-> 0],
             workCost |-> [v \in V |-> 0],
             nonbasicFlag |-> [v \in V |-> IF isBasic(v) THEN 0 ELSE 1],
             nonbasicMove |-> [v \in V |-> move(v)],
             basicIndex |-> basic,
             baseLower |-> [r \in 0 .. (n_row - 1) |-> LowerOf(type[basic[r]])],
             baseUpper |-> [r \in 0 .. (n_row - 1) |-> UpperOf(type[basic[r]])],
             baseValue |-> [r \in 0 .. (n_row - 1) |-> 0],
             devex_weight |-> [v \in V |-> WeightUnit],
             devex_index |-> [v \in V |-> 0],
             num_bad_devex_weight |-> 0,
             nonbasic_free_col_set |-> {},
             num_free_col |-> Cardinality({v \in V : type[v] = "free"}),
             primal_bound_swap |-> 0,
             has_dual |-> FALSE, h_shifted |-> FALSE,
             primal_feasibility_tolerance |-> primal_feasibility_tolerance,
             dual_feasibility_tolerance |-> dual_feasibility_tolerance,
             col_aq |-> [r \in 0 .. (n_row - 1) |-> 0],
             hyper |-> NoHyper,
             h_order |-> NoOrder,
             h_last |-> NoLast ]
  IN  resetDevex(d)

\* a collection that takes every free column, basic or not
getNonbasicFreeColumnSet_AllFree(d) ==
  IF d.num_free_col = 0 THEN d
  ELSE [d EXCEPT !.nonbasic_free_col_set =
          { v \in VarsOf(d) : /\ d.workLower[v] <= 0 - HIGHS_CONST_INF
                              /\ d.workUpper[v] >= HIGHS_CONST_INF }]

\* HEkkPrimal::getNonbasicFreeColumnSet
getNonbasicFreeColumnSet(d) ==
  IF d.num_free_col = 0 THEN d
  ELSE [d EXCEPT !.nonbasic_free_col_set =
          { v \in VarsOf(d) : /\ d.nonbasicFlag[v] = 1
                              /\ d.workLower[v] <= 0 - HIGHS_CONST_INF
                              /\ d.workUpper[v] >= HIGHS_CONST_INF }]

(***************************************************************************)
(* rebuild() and cleanup() on the data.                                    *)
(***************************************************************************)
\* the basic variable of row r violates a bound by more than the tolerance tol
\* (-1 below its lower bound, +1 above its upper bound, 0 otherwise)
Violation(d, r, tol) ==
  IF d.baseValue[r] < Minus(d.baseLower[r], tol) THEN 0 - 1
  ELSE IF d.baseValue[r] > Plus(d.baseUpper[r], tol) THEN 1
  ELSE 0

\* HEkk::computeSimplexPrimalInfeasible and
\* HEkkPrimal::getBasicPrimalInfeasibility: the count from the values
CountInfeas(d) ==
  Cardinality({ r \in RowsOf(d) : Violation(d, r, d.primal_feasibility_tolerance) # 0 })

\* HEkk::computePrimal: the values of the basic variables from scratch (the
\* input value), with the bounds of the basic variables
computePrimal(d, value) ==
  [d EXCEPT !.baseValue = value,
            !.baseLower = [r \in RowsOf(d) |-> d.workLower[d.basicIndex[r]]],
            !.baseUpper = [r \in RowsOf(d) |-> d.workUpper[d.basicIndex[r]]]]

\* HEkkPrimal::phase1ComputeDual: the synthetic costs of the infeasible
\* basic variables, and the duals they give (the input dual)
phase1ComputeDual(d, dual) ==
  LET cost(v) ==
        IF \E r \in RowsOf(d) : d.basicIndex[r] = v
          THEN Violation(d, CHOOSE r \in RowsOf(d) : d.basicIndex[r] = v,
                         d.dual_feasibility_tolerance)
          ELSE 0
  IN  [d EXCEPT !.workCost = [v \in VarsOf(d) |-> cost(v)],
                !.workDual = [v \in VarsOf(d) |-> d.nonbasicFlag[v] * dual[v]],
                !.has_dual = TRUE]

\* HEkk::initialiseCost: the costs of the LP (zero in the LPs followed)
initialiseCost(d) == [d EXCEPT !.workCost = [v \in VarsOf(d) |-> 0]]

\* HEkk::computeDual: the duals of Phase 2 from scratch (the input dual)
computeDual(d, dual) ==
  [d EXCEPT !.workDual = [v \in VarsOf(d) |-> d.nonbasicFlag[v] * dual[v]],
            !.has_dual = TRUE]

\* rebuild() leaving the costs and duals of the phase it came from
rebuildLp_KeepsDuals(e, o) ==
  LET d1 == computePrimal(e.lp, o.baseValue)
      e1 == rebuild([e EXCEPT !.computed_infeas = CountInfeas(d1)],
                    o.rank_deficiency)
  IN  IF e1.solvePhase = "ERROR"
        THEN [e1 EXCEPT !.computed_infeas = e.computed_infeas]
        ELSE [e1 EXCEPT !.lp = d1]

rebuildLp(e, o) ==
  LET d1 == computePrimal(e.lp, o.baseValue)
      e1 == rebuild([e EXCEPT !.computed_infeas = CountInfeas(d1)],
                    o.rank_deficiency)
      d2 == IF e1.solvePhase = "PHASE_1"
              THEN phase1ComputeDual(d1, o.workDual)
              ELSE computeDual(IF e.solvePhase = "PHASE_1"
                                 THEN initialiseCost(d1) ELSE d1,
                               o.workDual)
  IN  IF e1.solvePhase = "ERROR"
        THEN [e1 EXCEPT !.computed_infeas = e.computed_infeas]
        ELSE [e1 EXCEPT !.lp = d2]

\* some bound of the data is shifted
Shifted(d) ==
  \E v \in VarsOf(d) : d.workLowerShift[v] # 0 \/ d.workUpperShift[v] # 0

\* HEkk::initialiseBound: the bounds of the LP, with no shift
initialiseBoundLp(d) ==
  [d EXCEPT !.workLower = d.lpLower,
            !.workUpper = d.lpUpper,
            !.workLowerShift = [v \in VarsOf(d) |-> 0],
            !.workUpperShift = [v \in VarsOf(d) |-> 0]]

\* HEkk::initialiseNonbasicWorkValue: a nonbasic variable at the bound its
\* move names
initialiseNonbasicWorkValue(d) ==
  [d EXCEPT !.workValue =
     [v \in VarsOf(d) |->
        IF d.nonbasicFlag[v] = 0 THEN d.workValue[v]
        ELSE IF d.nonbasicMove[v] > 0 THEN d.workLower[v]
        ELSE IF d.nonbasicMove[v] < 0 THEN d.workUpper[v]
        ELSE IF d.workLower[v] = d.workUpper[v] THEN d.workLower[v]
        ELSE 0]]

\* cleanup() that leaves the bounds as they are
cleanupLp_KeepsBounds(e, value) ==
  LET d1 == initialiseNonbasicWorkValue(e.lp)
      d2 == [computePrimal(d1, value) EXCEPT !.h_shifted = Shifted(e.lp)]
  IN  [cleanup(e, CountInfeas(d2)) EXCEPT !.lp = d2]

\* HEkkPrimal::cleanup on the data; the history keeps whether it found a
\* shifted bound
cleanupLp(e, value) ==
  LET d1 == initialiseNonbasicWorkValue(initialiseBoundLp(e.lp))
      d2 == [computePrimal(d1, value) EXCEPT !.h_shifted = Shifted(e.lp)]
  IN  [cleanup(e, CountInfeas(d2)) EXCEPT !.lp = d2]

(***************************************************************************)
(* CHUZC.  The full scan of chooseColumn(): first the nonbasic free        *)
(* columns, whose dual infeasibility is |dual|, then every column with     *)
(* infeasibility -move * dual.  A column replaces the best one so far when *)
(* its infeasibility exceeds the tolerance and its measure                 *)
(* infeasibility / weight is strictly larger; measures are compared with   *)
(* the quotients cleared.  The hyper-sparse choice is asserted by chuzc()  *)
(* to have the measure of the full scan; the column followed is the one    *)
(* the full scan returns.                                                  *)
(***************************************************************************)
RECURSIVE SetToSeq(_)
\* the entries of a set of columns, in increasing order
SetToSeq(S) ==
  IF S = {} THEN << >>
  ELSE LET m == CHOOSE x \in S : \A y \in S : x <= y
       IN  <<m>> \o SetToSeq(S \ {m})

\* the dual infeasibility chooseColumn() gives column v, met as a nonbasic
\* free column (free) or in the scan of all columns
DualInfeasibility(d, v, free) ==
  IF free THEN Abs(d.workDual[v]) ELSE (0 - d.nonbasicMove[v]) * d.workDual[v]

NoBest == [variable_in |-> NoVar, infeasibility |-> 0, weight |-> 1]

RECURSIVE ScanColumns(_, _, _, _, _)
\* the columns cand[i..], met as free or not, against the best so far
ScanColumns(d, cand, free, i, best) ==
  IF i > Len(cand) THEN best
  ELSE LET v == cand[i]
           inf == DualInfeasibility(d, v, free)
           better == /\ inf > d.dual_feasibility_tolerance
                     /\ inf * best.weight > best.infeasibility * d.devex_weight[v]
       IN  ScanColumns(d, cand, free, i + 1,
                       IF better
                         THEN [variable_in |-> v, infeasibility |-> inf,
                               weight |-> d.devex_weight[v]]
                         ELSE best)

\* a CHUZC that takes the first attractive column met
chooseColumn_FirstAttractive(d) ==
  LET A == { v \in VarsOf(d) :
               DualInfeasibility(d, v, v \in d.nonbasic_free_col_set)
                 > d.dual_feasibility_tolerance }
  IN  IF A = {} THEN NoVar ELSE CHOOSE v \in A : \A w \in A : v <= w

\* chooseColumn(false): the column of the best measure, NoVar if none is
\* attractive
chooseColumn(d) ==
  LET b1 == ScanColumns(d, SetToSeq(d.nonbasic_free_col_set), TRUE, 1, NoBest)
      b2 == ScanColumns(d, SetToSeq(VarsOf(d)), FALSE, 1, b1)
  IN  b2.variable_in

\* assessVariableIn: the direction the entering variable moves in
MoveIn(d, q) == IF d.workDual[q] > 0 THEN 0 - 1 ELSE 1

(***************************************************************************)
(* CHUZR.  col is the pivotal column col_aq in halves, so that the step to *)
(* a breakpoint, space / (col[r] * move_in / 2), is the integer            *)
(* 2 * space / (col[r] * move_in).  Every nonzero entry passes the pivot   *)
(* tolerance.                                                              *)
(***************************************************************************)
\* the initial value 1e100 of relaxTheta in chooseRow()
relaxThetaInit == 100

\* the breakpoints of row r for phase1ChooseRow(): relaxed ones for the
\* list R or tight ones for the list T; an index of r - num_row stands for
\* the lower bound of row r
Breakpoints(d, col, move_in, r, relaxed) ==
  LET alpha == col[r] * move_in
      tol == d.primal_feasibility_tolerance
      bv == d.baseValue[r]
      bl == d.baseLower[r]
      bu == d.baseUpper[r]
      slack == IF relaxed THEN tol ELSE 0
      up ==   \* alpha > 0
        (IF bv > Plus(bu, tol)
           THEN {<<Quot(2 * (bv - bu - tol), alpha), r>>} ELSE {})
        \cup
        (IF bv > Minus(bl, tol) /\ bl > 0 - HIGHS_CONST_INF
           THEN {<<Quot(2 * (bv - bl + slack), alpha), r - d.num_row>>} ELSE {})
      down == \* alpha < 0
        (IF bv < Minus(bl, tol)
           THEN {<<Quot(2 * (bv - bl + tol), alpha), r - d.num_row>>} ELSE {})
        \cup
        (IF bv < Plus(bu, tol) /\ bu < HIGHS_CONST_INF
           THEN {<<Quot(2 * (bv - bu - slack), alpha), r>>} ELSE {})
  IN  IF alpha > 0 THEN up ELSE IF alpha < 0 THEN down ELSE {}

\* std::sort on pairs (theta, index)
PairLess(x, y) == x[1] < y[1] \/ (x[1] = y[1] /\ x[2] < y[2])

RECURSIVE SortPairs(_)
SortPairs(S) ==
  IF S = {} THEN << >>
  ELSE LET m == CHOOSE x \in S : \A y \in S \ {x} : PairLess(x, y)
       IN  <<m>> \o SortPairs(S \ {m})

RowOfIndex(d, index) == IF index >= 0 THEN index ELSE index + d.num_row

RECURSIVE MaxThetaScan(_, _, _, _, _, _)
\* the walk along R while the gradient stays positive
MaxThetaScan(d, col, R, i, gradient, max_theta) ==
  IF i > Len(R) THEN max_theta
  ELSE LET g == gradient - Abs(col[RowOfIndex(d, R[i][2])])
       IN  IF g <= 0 THEN max_theta
           ELSE MaxThetaScan(d, col, R, i + 1, g, R[i][1])

\* the sorted list R (relaxed) or T (tight) of breakpoints
Ph1List(d, col, move_in, relaxed) ==
  SortPairs(UNION { Breakpoints(d, col, move_in, r, relaxed) :
                      r \in { x \in RowsOf(d) : col[x] # 0 } })

\* the number of entries of T that are not beyond dMaxTheta
Ph1Last(T, dMaxTheta) ==
  LET beyond == { i \in 1 .. Len(T) : T[i][1] > dMaxTheta }
  IN  IF beyond = {} THEN Len(T)
      ELSE (CHOOSE i \in beyond : \A j \in beyond : i <= j) - 1

\* the entries of T[1 .. iLast] whose |alpha| exceeds a tenth of the largest
Ph1Good(d, col, T, iLast) ==
  LET absAlpha(i) == Abs(col[RowOfIndex(d, T[i][2])])
  IN  { i \in 1 .. iLast :
          \A j \in 1 .. iLast : 10 * absAlpha(i) > absAlpha(j) }

\* a choice of the first of the good entries
Ph1Pick_FirstGood(d, T, good) ==
  IF good = {} THEN [row_out |-> NoRow, move_out |-> 0]
  ELSE LET pick == CHOOSE i \in good : \A j \in good : i <= j
       IN  [row_out |-> RowOfIndex(d, T[pick][2]),
            move_out |-> IF T[pick][2] >= 0 THEN 1 ELSE 0 - 1]

\* the last of the good entries
Ph1Pick(d, T, good) ==
  IF good = {} THEN [row_out |-> NoRow, move_out |-> 0]
  ELSE LET pick == CHOOSE i \in good : \A j \in good : j <= i
       IN  [row_out |-> RowOfIndex(d, T[pick][2]),
            move_out |-> IF T[pick][2] >= 0 THEN 1 ELSE 0 - 1]

Ph1FromLists(d, col, theta_dual, R, T) ==
  IF Len(R) = 0 THEN [row_out |-> NoRow, move_out |-> 0]
  ELSE Ph1Pick(d, T,
               Ph1Good(d, col, T,
                       Ph1Last(T, MaxThetaScan(d, col, R, 1,
                                               2 * Abs(theta_dual), R[1][1]))))

\* phase1ChooseRow: the leaving row and the bound it leaves at
phase1ChooseRowLp(d, col, move_in, theta_dual) ==
  Ph1FromLists(d, col, theta_dual,
               Ph1List(d, col, move_in, TRUE), Ph1List(d, col, move_in, FALSE))

RECURSIVE RelaxThetaScan(_, _, _, _, _)
\* pass 1 of chooseRow(): the largest step that keeps every basic variable
\* within its bounds relaxed by the tolerance; relaxTheta is kept doubled
RelaxThetaScan(d, col, move_in, rows, relaxTheta2) ==
  IF Len(rows) = 0 THEN relaxTheta2
  ELSE LET r == Head(rows)
           alpha == col[r] * move_in
           tol == d.primal_feasibility_tolerance
           space == IF alpha > 0
                      THEN Plus(Minus(d.baseValue[r], d.baseLower[r]), tol)
                      ELSE Minus(Minus(d.baseValue[r], d.baseUpper[r]), tol)
           closer == \/ alpha > 0 /\ 4 * space < relaxTheta2 * alpha
                     \/ alpha < 0 /\ 4 * space > relaxTheta2 * alpha
       IN  RelaxThetaScan(d, col, move_in, Tail(rows),
                          IF closer THEN Quot(4 * space, alpha) ELSE relaxTheta2)

RECURSIVE BestAlphaScan(_, _, _, _, _, _)
\* pass 2 of chooseRow(): among the rows whose tight step is within
\* relaxTheta, the first one of the largest |alpha|
BestAlphaScan(d, col, move_in, rows, relaxTheta2, best) ==
  IF Len(rows) = 0 THEN best.row_out
  ELSE LET r == Head(rows)
           alpha == col[r] * move_in
           space == IF alpha > 0
                      THEN Minus(d.baseValue[r], d.baseLower[r])
                      ELSE Minus(d.baseValue[r], d.baseUpper[r])
           within == \/ alpha > 0 /\ 4 * space < relaxTheta2 * alpha
                     \/ alpha < 0 /\ 4 * space > relaxTheta2 * alpha
       IN  BestAlphaScan(d, col, move_in, Tail(rows), relaxTheta2,
                         IF within /\ best.alpha < Abs(alpha)
                           THEN [alpha |-> Abs(alpha), row_out |-> r]
                           ELSE best)

\* a ratio test that takes the first row within relaxTheta, whatever its
\* pivot
chooseRowLp_FirstWithin(d, col, move_in) ==
  LET rows == SetToSeq({ r \in RowsOf(d) : col[r] # 0 })
      relaxTheta2 == RelaxThetaScan(d, col, move_in, rows, 2 * relaxThetaInit)
      space(r) == IF col[r] * move_in > 0
                    THEN Minus(d.baseValue[r], d.baseLower[r])
                    ELSE Minus(d.baseValue[r], d.baseUpper[r])
      within == { r \in RowsOf(d) :
                    \/ col[r] * move_in > 0
                         /\ 4 * space(r) < relaxTheta2 * col[r] * move_in
                    \/ col[r] * move_in < 0
                         /\ 4 * space(r) > relaxTheta2 * col[r] * move_in }
  IN  IF within = {} THEN NoRow
      ELSE CHOOSE r \in within : \A x \in within : r <= x

\* chooseRow: the leaving row of Phase 2, NoRow if no basic variable blocks
chooseRowLp(d, col, move_in) ==
  LET rows == SetToSeq({ r \in RowsOf(d) : col[r] # 0 })
      relaxTheta2 == RelaxThetaScan(d, col, move_in, rows, 2 * relaxThetaInit)
  IN  BestAlphaScan(d, col, move_in, rows, relaxTheta2,
                    [alpha |-> 0, row_out |-> NoRow])

(***************************************************************************)
(* considerBoundSwap: the primal step to the leaving row, and the bound    *)
(* flip when the entering variable passes its other bound by more than the *)
(* tolerance first.                                                        *)
(***************************************************************************)
considerBoundSwapLp(d, phase, q, move_in, col, chuzr) ==
  LET row == chuzr.row_out
      move_out == IF row < 0 THEN 0
                  ELSE IF phase = "PHASE_2"
                    THEN (IF col[row] * move_in > 0 THEN 0 - 1 ELSE 1)
                  ELSE chuzr.move_out
      theta == IF row < 0 THEN move_in * HIGHS_CONST_INF
               ELSE IF move_out = 1
                 THEN Quot(2 * Minus(d.baseValue[row], d.baseUpper[row]), col[row])
               ELSE Quot(2 * Minus(d.baseValue[row], d.baseLower[row]), col[row])
      lower_in == d.workLower[q]
      upper_in == d.workUpper[q]
      value == Plus(d.workValue[q], theta)
      tol == d.primal_feasibility_tolerance
      flipped == IF move_in > 0 THEN value > Plus(upper_in, tol)
                 ELSE value < Minus(lower_in, tol)
  IN  IF flipped
        THEN [flipped |-> TRUE, row_out |-> NoRow, move_out |-> move_out,
              value_in |-> IF move_in > 0 THEN upper_in ELSE lower_in,
              theta_primal |-> IF move_in > 0 THEN Minus(upper_in, lower_in)
                               ELSE Minus(lower_in, upper_in)]
        ELSE [flipped |-> FALSE, row_out |-> row, move_out |-> move_out,
              value_in |-> value, theta_primal |-> theta]

(***************************************************************************)
(* The steps of update() on the data.  Each step notes itself in h_order.  *)
(***************************************************************************)
Note(d, step) == [d EXCEPT !.h_order = Append(d.h_order, step)]

\* a flip that moves the value and leaves nonbasicMove as it was
flipBound_KeepsMove(d, q, move_in, value_in) ==
  Note([d EXCEPT !.workValue[q] = value_in,
                 !.primal_bound_swap = d.primal_bound_swap + 1],
       "flip")

\* the flip of the entering variable q to its other bound
flipBound(d, q, move_in, value_in) ==
  Note([d EXCEPT !.workValue[q] = value_in,
                 !.nonbasicMove[q] = 0 - move_in,
                 !.primal_bound_swap = d.primal_bound_swap + 1],
       "flip")

\* baseValue[iRow] -= theta_primal * col_aq[iRow]
UpdatedBaseValue(d, col, theta_primal) ==
  [r \in RowsOf(d) |-> d.baseValue[r] - Quot(theta_primal * col[r], 2)]

\* the number of rows of the pivotal column that phase2UpdatePrimal() or
\* phase1UpdatePrimal() finds infeasible
InfeasibleRows(d, col) ==
  { r \in RowsOf(d) :
      col[r] # 0 /\ Violation(d, r, d.primal_feasibility_tolerance) # 0 }

\* phase1UpdatePrimal: the values, and the synthetic costs of the rows of
\* the pivotal column
phase1UpdatePrimalLp(d, col, theta_primal) ==
  LET d1 == [d EXCEPT !.baseValue = UpdatedBaseValue(d, col, theta_primal)]
      rowOf(v) == CHOOSE r \in RowsOf(d) : d.basicIndex[r] = v
      touched(v) == \E r \in RowsOf(d) : d.basicIndex[r] = v /\ col[r] # 0
      cost(v) == IF touched(v)
                   THEN Violation(d1, rowOf(v), d.primal_feasibility_tolerance)
                   ELSE d.workCost[v]
  IN  Note([d1 EXCEPT !.workCost = [v \in VarsOf(d) |-> cost(v)]], "primal")

\* the change phase1UpdatePrimal makes to num_primal_infeasibilities
Phase1CountChange(d, d1, col) ==
  LET rows == { r \in RowsOf(d) : col[r] # 0 }
      was(r) == d.workCost[d.basicIndex[r]]
      now(r) == d1.workCost[d.basicIndex[r]]
  IN  Cardinality({ r \in rows : was(r) = 0 /\ now(r) # 0 })
      - Cardinality({ r \in rows : was(r) # 0 /\ now(r) = 0 })

\* basicFeasibilityChangeUpdateDual: the duals of the nonbasic variables
\* follow the change of the costs (change is the priced change, zero when
\* no cost changed)
basicFeasibilityChangeUpdateDual(d, d1, change) ==
  LET changed == \E v \in VarsOf(d) : d.workCost[v] # d1.workCost[v]
  IN  Note([d1 EXCEPT !.workDual =
              [v \in VarsOf(d) |->
                 IF changed /\ d.nonbasicFlag[v] = 1
                   THEN d1.workDual[v] - change[v] ELSE d1.workDual[v]]],
           "dual_refresh")

\* phase2UpdatePrimal: the values
phase2UpdatePrimalLp(d, col, theta_primal) ==
  Note([d EXCEPT !.baseValue = UpdatedBaseValue(d, col, theta_primal)], "primal")

\* the side on which value_in violates the bounds of q by more than the
\* tolerance (0 if it does not)
ValueInCost(d, q, value_in) ==
  IF value_in < Minus(d.workLower[q], d.primal_feasibility_tolerance) THEN 0 - 1
  ELSE IF value_in > Plus(d.workUpper[q], d.primal_feasibility_tolerance) THEN 1
  ELSE 0

\* numTotRandomValue of the entering variable
random_value == 0

\* a shift by the infeasibility alone, which leaves the value on the bound
shiftBound_ToValue(d, lower, q, value_in) ==
  LET shift == IF lower THEN d.workLower[q] - value_in
               ELSE value_in - d.workUpper[q]
  IN  IF lower
        THEN [d EXCEPT !.workLower[q] = d.workLower[q] - shift,
                       !.workLowerShift[q] = d.workLowerShift[q] + shift]
        ELSE [d EXCEPT !.workUpper[q] = d.workUpper[q] + shift,
                       !.workUpperShift[q] = d.workUpperShift[q] + shift]

\* shiftBound: the bound moves past the value by (1 + random_value) times
\* the tolerance, and the shift is added to the sum of shifts
shiftBound(d, lower, q, value_in) ==
  LET feasibility == (1 + random_value) * d.primal_feasibility_tolerance
      shift == IF lower THEN d.workLower[q] - value_in + feasibility
               ELSE value_in - d.workUpper[q] + feasibility
  IN  IF lower
        THEN [d EXCEPT !.workLower[q] = d.workLower[q] - shift,
                       !.workLowerShift[q] = d.workLowerShift[q] + shift]
        ELSE [d EXCEPT !.workUpper[q] = d.workUpper[q] + shift,
                       !.workUpperShift[q] = d.workUpperShift[q] + shift]

\* considerInfeasibleValueIn on the data
considerInfeasibleValueInLp(d, phase, allow, q, r_out, value_in) ==
  LET d1 == [d EXCEPT !.baseValue[r_out] = value_in]
      cost == ValueInCost(d, q, value_in)
  IN  Note(IF cost = 0 THEN d1
           ELSE IF phase = "PHASE_1"
             THEN [d1 EXCEPT !.workCost[q] = cost,
                             !.workDual[q] = d.workDual[q] + cost]
           ELSE IF allow THEN shiftBound(d1, cost < 0, q, value_in)
           ELSE d1,
           "value_in")

\* updateDual: the duals of the columns of the pivotal row (row, in
\* halves) move by theta_dual times their entry; the entering variable
\* gets dual 0 and the leaving one -theta_dual, with
\* theta_dual = workDual[q] / alpha_col
updateDual(d, q, r_out, col, row) ==
  LET v_out == d.basicIndex[r_out]
      dual_q == d.workDual[q]
      alpha_col == col[r_out]
      new(v) == IF v = q THEN 0
                ELSE IF v = v_out THEN 0 - Quot(2 * dual_q, alpha_col)
                ELSE IF d.nonbasicFlag[v] = 1
                  THEN d.workDual[v] - Quot(dual_q * row[v], alpha_col)
                ELSE d.workDual[v]
  IN  Note([d EXCEPT !.workDual = [v \in VarsOf(d) |-> new(v)]], "dual")

\* an update that overwrites the weights of the pivotal row instead of
\* raising them
updateDevex_Overwrites(d, q, r_out, col, row) ==
  LET v_out == d.basicIndex[r_out]
      W == WeightUnit
      sq(r) == (d.devex_index[d.basicIndex[r]] * col[r])
               * (d.devex_index[d.basicIndex[r]] * col[r])
      RECURSIVE Sum(_)
      Sum(S) == IF S = {} THEN 0
                ELSE LET r == CHOOSE x \in S : TRUE
                     IN  sq(r) + Sum(S \ {r})
      dPivotWeight0 == Sqrt((W * W * Sum(RowsOf(d))) \div 4
                            + W * W * d.devex_index[q])
      bad == d.devex_weight[q] * d.devex_weight[q]
               > bad_devex_weight_factor * bad_devex_weight_factor
                   * ((W * W * Sum(RowsOf(d))) \div 4 + W * W * d.devex_index[q])
      dPivotWeight == (2 * dPivotWeight0) \div Abs(col[r_out])
      devex(v) == (dPivotWeight * Abs(row[v])) \div 2 + W * d.devex_index[v]
      new(v) == IF v = q THEN W
                ELSE IF v = v_out THEN dPivotWeight
                ELSE IF d.nonbasicFlag[v] = 1 /\ row[v] # 0
                  THEN devex(v)
                ELSE d.devex_weight[v]
  IN  Note([d EXCEPT !.devex_weight = [v \in VarsOf(d) |-> new(v)],
                     !.num_bad_devex_weight =
                        IF bad THEN d.num_bad_devex_weight + 1
                        ELSE d.num_bad_devex_weight],
           "devex")

\* updateDevex: the pivot weight from the reference framework, the test of
\* the stored weight of the entering variable, and the new weights
updateDevex(d, q, r_out, col, row) ==
  LET v_out == d.basicIndex[r_out]
      W == WeightUnit
      sq(r) == (d.devex_index[d.basicIndex[r]] * col[r])
               * (d.devex_index[d.basicIndex[r]] * col[r])
      RECURSIVE Sum(_)
      Sum(S) == IF S = {} THEN 0
                ELSE LET r == CHOOSE x \in S : TRUE
                     IN  sq(r) + Sum(S \ {r})
      dPivotWeight0 == Sqrt((W * W * Sum(RowsOf(d))) \div 4
                            + W * W * d.devex_index[q])
      bad == d.devex_weight[q] * d.devex_weight[q]
               > bad_devex_weight_factor * bad_devex_weight_factor
                   * ((W * W * Sum(RowsOf(d))) \div 4 + W * W * d.devex_index[q])
      dPivotWeight == (2 * dPivotWeight0) \div Abs(col[r_out])
      devex(v) == (dPivotWeight * Abs(row[v])) \div 2 + W * d.devex_index[v]
      new(v) == IF v = q THEN W
                ELSE IF v = v_out THEN Max(W, dPivotWeight)
                ELSE IF d.nonbasicFlag[v] = 1 /\ row[v] # 0
                  THEN Max(d.devex_weight[v], devex(v))
                ELSE d.devex_weight[v]
  IN  Note([d EXCEPT !.devex_weight = [v \in VarsOf(d) |-> new(v)],
                     !.num_bad_devex_weight =
                        IF bad THEN d.num_bad_devex_weight + 1
                        ELSE d.num_bad_devex_weight],
           "devex")

\* removeNonbasicFreeColumn: an entering variable with move 0 leaves S_free
removeNonbasicFreeColumn(d, q) ==
  Note(IF d.nonbasicMove[q] = 0
         THEN [d EXCEPT !.nonbasic_free_col_set = d.nonbasic_free_col_set \ {q}]
         ELSE d,
       "free")

\* an updatePivots that moves the flags and leaves basicIndex alone
updatePivotsLp_KeepsIndex(d, q, r_out, move_out) ==
  LET v_out == d.basicIndex[r_out]
  IN  Note([d EXCEPT !.nonbasicFlag = [d.nonbasicFlag EXCEPT ![q] = 0, ![v_out] = 1],
                     !.nonbasicMove =
                        [d.nonbasicMove EXCEPT
                           ![q] = 0,
                           ![v_out] = IF move_out < 0 THEN 1 ELSE 0 - 1],
                     !.workValue[v_out] =
                        IF move_out < 0 THEN d.workLower[v_out]
                        ELSE d.workUpper[v_out],
                     !.baseLower[r_out] = d.workLower[q],
                     !.baseUpper[r_out] = d.workUpper[q]],
           "pivots")

\* HEkk::updatePivots: q becomes basic in row r_out; the leaving variable
\* becomes nonbasic at the bound it was driven to
updatePivotsLp(d, q, r_out, move_out) ==
  LET v_out == d.basicIndex[r_out]
      fixed == d.workLower[v_out] = d.workUpper[v_out]
  IN  Note([d EXCEPT !.basicIndex[r_out] = q,
                     !.nonbasicFlag = [d.nonbasicFlag EXCEPT ![q] = 0, ![v_out] = 1],
                     !.nonbasicMove =
                        [d.nonbasicMove EXCEPT
                           ![q] = 0,
                           ![v_out] = IF fixed THEN 0
                                      ELSE IF move_out < 0 THEN 1 ELSE 0 - 1],
                     !.workValue[v_out] =
                        IF move_out < 0 THEN d.workLower[v_out]
                        ELSE d.workUpper[v_out],
                     !.baseLower[r_out] = d.workLower[q],
                     !.baseUpper[r_out] = d.workUpper[q]],
           "pivots")

(***************************************************************************)
(* update() on the data.  step carries the entering variable q, its        *)
(* direction, the outcome of considerBoundSwap() and what the kernels      *)
(* delivered: the pivotal column col and row row (in halves), and the      *)
(* priced change of the Phase 1 costs.                                     *)
(***************************************************************************)
\* the primal update of the phase
updatePrimalLp(d, phase, step) ==
  IF phase = "PHASE_1"
    THEN basicFeasibilityChangeUpdateDual(
           d, phase1UpdatePrimalLp(d, step.col, step.theta_primal), step.change)
    ELSE phase2UpdatePrimalLp(d, step.col, step.theta_primal)

\* an update() that counts the bad weights and never resets the framework
resetIfBad_Never(d) == d

\* the reset of the Devex framework once too many weights were bad
resetIfBad(d) ==
  IF d.num_bad_devex_weight > allowed_num_bad_devex_weight
    THEN Note(resetDevex(d), "reset")
    ELSE d

\* update() with the Devex weights updated before the duals
updateLp_DevexFirst(d, phase, allow, step) ==
  LET q == step.q
      r == step.r_out
      d1 == IF step.flipped THEN flipBound(d, q, step.move_in, step.value_in)
            ELSE d
      d2 == updatePrimalLp(d1, phase, step)
      d3 == considerInfeasibleValueInLp(d2, phase, allow, q, r, step.value_in)
      d4 == updateDevex(d3, q, r, step.col, step.row)
      d5 == updateDual(d4, q, r, step.col, step.row)
      d6 == removeNonbasicFreeColumn(d5, q)
      d7 == updatePivotsLp(d6, q, r, step.move_out)
      d8 == Note(Note(d7, "factor"), "iteration_count")
  IN  IF step.flipped THEN d2 ELSE resetIfBad(d8)

\* update() that leaves the Devex framework alone
updateLp_NoDevex(d, phase, allow, step) ==
  LET q == step.q
      r == step.r_out
      d1 == IF step.flipped THEN flipBound(d, q, step.move_in, step.value_in)
            ELSE d
      d2 == updatePrimalLp(d1, phase, step)
      d3 == considerInfeasibleValueInLp(d2, phase, allow, q, r, step.value_in)
      d4 == updateDual(d3, q, r, step.col, step.row)
      d6 == removeNonbasicFreeColumn(d4, q)
      d7 == updatePivotsLp(d6, q, r, step.move_out)
      d8 == Note(Note(d7, "factor"), "iteration_count")
  IN  IF step.flipped THEN d2 ELSE d8

\* update() whose bound flip leaves the value of the entering variable
updateLp_FlipKeepsValue(d, phase, allow, step) ==
  LET q == step.q
      r == step.r_out
      d1 == IF step.flipped
              THEN flipBound(d, q, step.move_in, d.workValue[q])
              ELSE d
      d2 == updatePrimalLp(d1, phase, step)
      d3 == considerInfeasibleValueInLp(d2, phase, allow, q, r, step.value_in)
      d4 == updateDual(d3, q, r, step.col, step.row)
      d5 == updateDevex(d4, q, r, step.col, step.row)
      d6 == removeNonbasicFreeColumn(d5, q)
      d7 == updatePivotsLp(d6, q, r, step.move_out)
      d8 == Note(Note(d7, "factor"), "iteration_count")
  IN  IF step.flipped THEN d2 ELSE resetIfBad(d8)

\* update() that keeps the entering variable in S_free
updateLp_KeepsFree(d, phase, allow, step) ==
  LET q == step.q
      r == step.r_out
      d1 == IF step.flipped THEN flipBound(d, q, step.move_in, step.value_in)
            ELSE d
      d2 == updatePrimalLp(d1, phase, step)
      d3 == considerInfeasibleValueInLp(d2, phase, allow, q, r, step.value_in)
      d4 == updateDual(d3, q, r, step.col, step.row)
      d5 == updateDevex(d4, q, r, step.col, step.row)
      d7 == updatePivotsLp(Note(d5, "free"), q, r, step.move_out)
      d8 == Note(Note(d7, "factor"), "iteration_count")
  IN  IF step.flipped THEN d2 ELSE resetIfBad(d8)

updateLp(d, phase, allow, step) ==
  LET q == step.q
      r == step.r_out
      d1 == IF step.flipped THEN flipBound(d, q, step.move_in, step.value_in)
            ELSE d
      d2 == updatePrimalLp(d1, phase, step)
      d3 == considerInfeasibleValueInLp(d2, phase, allow, q, r, step.value_in)
      d4 == updateDual(d3, q, r, step.col, step.row)
      d5 == updateDevex(d4, q, r, step.col, step.row)
      d6 == removeNonbasicFreeColumn(d5, q)
      d7 == updatePivotsLp(d6, q, r, step.move_out)
      d8 == Note(Note(d7, "factor"), "iteration_count")
  IN  IF step.flipped THEN d2 ELSE resetIfBad(d8)

(***************************************************************************)
(* iterate() on the data.  The kernel input k carries the pivotal column   *)
(* and row, the priced change of the Phase 1 costs, the outcome of the     *)
(* dual sign check and of the pivot check, and what updateFactor() says.   *)
(* The decisions of iterate() are those of the phase driver, fed with what *)
(* CHUZC, CHUZR and the bound swap find on the data.                       *)
(***************************************************************************)
\* CHUZR of the phase
chuzrLp(e, d, k, q, move_in) ==
  IF e.solvePhase = "PHASE_1"
    THEN phase1ChooseRowLp(d, k.col, move_in, d.workDual[q])
    ELSE [row_out |-> chooseRowLp(d, k.col, move_in), move_out |-> 0]

\* considerBoundSwap(), not reached when Phase 1 finds no row
swapLp(e, d, k, q, move_in, chuzr) ==
  IF chuzr.row_out < 0 /\ e.solvePhase = "PHASE_1"
    THEN [flipped |-> FALSE, row_out |-> NoRow, move_out |-> 0,
          value_in |-> 0, theta_primal |-> 0]
    ELSE considerBoundSwapLp(d, e.solvePhase, q, move_in, k.col, chuzr)

\* the value the entering variable q would take at the end of the step to
\* the row that CHUZR chose (infinite when no row blocks)
WouldBeValue(e, d, q, move_in, col, chuzr) ==
  LET r == chuzr.row_out
      move_out == IF e.solvePhase = "PHASE_2"
                    THEN (IF col[r] * move_in > 0 THEN 0 - 1 ELSE 1)
                    ELSE chuzr.move_out
      bound == IF move_out = 1 THEN d.baseUpper[r] ELSE d.baseLower[r]
  IN  IF q = NoVar THEN 0
      ELSE IF r < 0 THEN move_in * HIGHS_CONST_INF
      ELSE Plus(d.workValue[q], Quot(2 * Minus(d.baseValue[r], bound), col[r]))

StepRecord(k, q, move_in, chuzr, swap) ==
  [q |-> q, move_in |-> move_in, chuzr_row |-> chuzr.row_out,
   flipped |-> swap.flipped, r_out |-> swap.row_out,
   move_out |-> swap.move_out, value_in |-> swap.value_in,
   theta_primal |-> swap.theta_primal,
   would_be |-> 0,
   col |-> k.col, row |-> k.row, change |-> k.change]

StepFromRow(e, d, k, q, move_in, chuzr) ==
  [StepRecord(k, q, move_in, chuzr, swapLp(e, d, k, q, move_in, chuzr))
     EXCEPT !.would_be = WouldBeValue(e, d, q, move_in, k.col, chuzr)]

StepFromColumn(e, d, k, q, move_in) ==
  StepFromRow(e, d, k, q, move_in, chuzrLp(e, d, k, q, move_in))

\* what CHUZC, CHUZR and considerBoundSwap() make of the data
KernelStep(e, d, k) ==
  StepFromColumn(e, d, k, chooseColumn(d), MoveIn(d, chooseColumn(d)))

\* what the driver is told of an update() that takes the data from d to dn
UpdateOutcome(e, d, dn, step, k) ==
  LET d1 == IF e.solvePhase = "PHASE_1"
              THEN phase1UpdatePrimalLp(d, step.col, step.theta_primal)
              ELSE phase2UpdatePrimalLp(d, step.col, step.theta_primal)
  IN  [count1 |-> e.num_primal_infeasibilities + Phase1CountChange(d, d1, step.col),
       found2 |-> Cardinality(InfeasibleRows(d1, step.col)),
       value_in_infeasible |->
          ~step.flipped /\ ValueInCost(d, step.q, step.value_in) # 0,
       synthetic |-> k.synthetic,
       next_in |-> chooseColumn(dn),
       computed |-> CountInfeas(dn)]

\* what the history keeps of an iterate(): what it applied, the entering
\* variable and its direction, whether it was in S_free, the leaving
\* variable, whether the Devex framework was reset, the value the entering
\* variable would take at the end of the step, and whether hyperChooseColumn()
\* was ever entered with done_next_chuzc set
Last(kind, d, step) ==
  [kind |-> kind, q |-> step.q, move_in |-> step.move_in,
   member |-> step.q \in d.nonbasic_free_col_set,
   v_out |-> IF step.r_out >= 0 THEN d.basicIndex[step.r_out] ELSE NoVar,
   reset |-> FALSE, would_be |-> step.would_be,
   entered_done |-> d.h_last.entered_done]

\* whether the step is applied by update(): a flip or a pivot
Applies(step) == step.flipped \/ step.r_out >= 0

\* what the phase driver is told of the iteration
DriverInput(e, d, dn, step, k) ==
  [variable_in |-> step.q, sign_ok |-> k.sign_ok,
   row_out |-> step.chuzr_row, flip |-> step.flipped,
   trouble |-> k.trouble,
   upd |-> IF Applies(step) THEN UpdateOutcome(e, d, dn, step, k) ELSE NoUpdate]

\* the data after the iterate() whose outcome for the driver is res
DataAfter(res, d, dn, step) ==
  IF res.h_update = "none"
    THEN [d EXCEPT !.h_last = Last("none", d, step)]
    ELSE [dn EXCEPT !.h_last =
            [Last(res.h_update, d, step) EXCEPT
               !.reset = (Len(dn.h_order) > 0
                          /\ dn.h_order[Len(dn.h_order)] = "reset")],
                    !.col_aq = step.col]

IterateResult(res, d, dn, step) == [res EXCEPT !.lp = DataAfter(res, d, dn, step)]

IterateUpdated(e, d, dn, step, k) ==
  IterateResult(iterate(e, DriverInput(e, d, dn, step, k)), d, dn, step)

IterateStep(e, d, step, k) ==
  IterateUpdated(e, d,
                 IF Applies(step)
                   THEN updateLp(d, e.solvePhase, e.allow_bound_perturbation, step)
                   ELSE d,
                 step, k)

IterateData(e, d, k) ==
  IF chooseColumn(d) = NoVar
    THEN [iterate(e, Quiet) EXCEPT !.lp = d]
    ELSE IterateStep(e, d, KernelStep(e, d, k), k)

iterateLp(e, k) ==
  IterateData(e, [e.lp EXCEPT !.h_order = NoOrder, !.h_last = NoLast], k)

(***************************************************************************)
(* The inputs of the kernels.  Entries of the pivotal column and row are   *)
(* halves; the pivotal row agrees with the pivotal column in the pivot     *)
(* (a disagreement is the input trouble) and is zero on basic variables.   *)
(* An input is followed when the values and duals it leads to are integers *)
(* within MaxVal and MaxDual.                                              *)
(***************************************************************************)
ColEntries == {0 - 2, 0 - 1, 0, 1, 2}
RowEntries == {0 - 1, 0, 2}
CostChanges == {0, 1}
DualValues == {0 - 2, 0, 2}
BaseValues == {0 - 2, 0 - 1, 0, 5, 6}
\* cap on simplex_info_.primal_bound_swap
MaxSwap == 2

KernelFlags ==
  { [sign_ok |-> TRUE, trouble |-> FALSE, synthetic |-> FALSE],
    [sign_ok |-> FALSE, trouble |-> FALSE, synthetic |-> FALSE],
    [sign_ok |-> TRUE, trouble |-> TRUE, synthetic |-> FALSE] }

Zero(d) == [v \in VarsOf(d) |-> 0]

NoKernel(d) ==
  [col |-> [r \in RowsOf(d) |-> 0], row |-> Zero(d), change |-> Zero(d),
   sign_ok |-> TRUE, trouble |-> FALSE, synthetic |-> FALSE]

\* the entry of the pivotal column in the row the step leaves by
PivotEntry(step, c) == IF step.r_out >= 0 THEN c[step.r_out] ELSE 0

\* the kernel inputs met with entering variable q
Kernels(e, d, q) ==
  LET others == { v \in VarsOf(d) : d.nonbasicFlag[v] = 1 /\ v # q }
      nonbasic == { v \in VarsOf(d) : d.nonbasicFlag[v] = 1 }
      pivot(c) == PivotEntry(KernelStep(e, d, [NoKernel(d) EXCEPT !.col = c]), c)
      row(c, f) == [v \in VarsOf(d) |->
                      IF v = q THEN pivot(c)
                      ELSE IF v \in others THEN f[v] ELSE 0]
      change(g) == [v \in VarsOf(d) |-> IF v \in nonbasic THEN g[v] ELSE 0]
  IN  { [col |-> c, row |-> row(c, f), change |-> change(g),
         sign_ok |-> b.sign_ok, trouble |-> b.trouble, synthetic |-> b.synthetic] :
          c \in [RowsOf(d) -> ColEntries],
          f \in [others -> RowEntries],
          g \in IF e.solvePhase = "PHASE_1" THEN [nonbasic -> CostChanges]
                ELSE {[v \in nonbasic |-> 0]},
          b \in KernelFlags }

\* the data at the dual update of the step
AtDualUpdate(e, d, step) ==
  considerInfeasibleValueInLp(
    updatePrimalLp(IF step.flipped
                     THEN flipBound(d, step.q, step.move_in, step.value_in)
                     ELSE d,
                   e.solvePhase, step),
    e.solvePhase, e.allow_bound_perturbation, step.q, step.r_out, step.value_in)

\* the dual step of the pivot is an integer
ExactDual(d3, step) ==
  LET alpha_col == Abs(step.col[step.r_out])
  IN  /\ (2 * d3.workDual[step.q]) % alpha_col = 0
      /\ \A v \in DOMAIN step.row :
            (d3.workDual[step.q] * step.row[v]) % alpha_col = 0

WithinCaps(dn) ==
  /\ \A r \in RowsOf(dn) : Abs(dn.baseValue[r]) <= MaxVal
  /\ \A v \in VarsOf(dn) : Abs(dn.workDual[v]) <= MaxDual

\* the update the step leads to stays within the numbers followed
FollowedStep(e, d, step) ==
  \/ ~Applies(step)
  \/ /\ \A r \in RowsOf(d) : (step.theta_primal * step.col[r]) % 2 = 0
     /\ step.flipped =>
          /\ e.num_flip_since_rebuild < MaxFlip
          /\ d.primal_bound_swap < MaxSwap
     /\ ~step.flipped => ExactDual(AtDualUpdate(e, d, step), step)
     /\ WithinCaps(updateLp(d, e.solvePhase, e.allow_bound_perturbation, step))

Followed(e, d, k) == FollowedStep(e, d, KernelStep(e, d, k))

KernelInputs(e) ==
  LET d == e.lp
      q == chooseColumn(d)
  IN  IF q = NoVar THEN {NoKernel(d)}
      ELSE { k \in Kernels(e, d, q) : Followed(e, d, k) }

\* what rebuild() is given: the verdict of the factorisation, and the
\* values and duals computed from scratch.  The values are those at hand;
\* so are the duals, unless none were computed yet or the costs they
\* belong to change with the phase.
RebuildInputs(e) ==
  LET d == e.lp
      nonbasic == { v \in VarsOf(d) : d.nonbasicFlag[v] = 1 }
      phase == IF CountInfeas(d) > 0 THEN "PHASE_1" ELSE "PHASE_2"
      known == d.has_dual /\ phase = e.solvePhase
  IN  { [rank_deficiency |-> rd, baseValue |-> d.baseValue,
         workDual |-> [v \in VarsOf(d) |-> IF v \in nonbasic THEN g[v] ELSE 0]] :
          rd \in IF e.update_count > 0 THEN BOOLEAN ELSE {FALSE},
          g \in IF known THEN {[v \in nonbasic |-> d.workDual[v]]}
                ELSE [nonbasic -> DualValues] }

\* what cleanup() is given: the values computed from scratch, those at hand
\* when no bound and no nonbasic value has moved
CleanupInputs(e) ==
  LET d == e.lp
      d1 == initialiseNonbasicWorkValue(initialiseBoundLp(d))
      same == /\ d1.workLower = d.workLower /\ d1.workUpper = d.workUpper
              /\ d1.workValue = d.workValue
  IN  IF same THEN {d.baseValue} ELSE [RowsOf(d) -> BaseValues]

(***************************************************************************)
(* The second specification: solve() on the simplex data.  The caller has  *)
(* set up an LP with a factored basis; the checkers find the data in       *)
(* order.  The values of the basic variables are those of the caller.      *)
(***************************************************************************)
\* the types of the variables of the LPs followed: free, boxed and bounded
\* below in turn, starting from each of the three, and all bounded below
LpTypes(V) ==
  LET kind(i) == IF i % 3 = 0 THEN "free" ELSE IF i % 3 = 1 THEN "boxed" ELSE "lower"
  IN  { [v \in V |-> kind(v + s)] : s \in 0 .. 2 } \cup { [v \in V |-> "lower"] }

\* the LPs and bases solve() is entered with
InitialLps ==
  LET V == 0 .. (MaxCol + MaxRow - 1)
      R == 0 .. (MaxRow - 1)
  IN  { computePrimal(MakeLp(MaxCol, MaxRow, type, basic, at_upper), value) :
          type \in LpTypes(V),
          basic \in { b \in [R -> V] : \A r1, r2 \in R : b[r1] = b[r2] => r1 = r2 },
          at_upper \in SUBSET V,
          value \in [R -> BaseValues] }

\* at_upper names nonbasic boxed variables only
ProperLp(d) ==
  \A v \in VarsOf(d) :
     /\ d.nonbasicMove[v] < 0 => d.workUpper[v] < HIGHS_CONST_INF
     /\ d.workValue[v] = (IF d.nonbasicMove[v] < 0 THEN d.workUpper[v] ELSE 0)

InitLp ==
  /\ sort = NoSort
  /\ consistent = NoConsistent
  /\ pc = "idle"
  /\ routine = "none"
  /\ return_status = "none"
  /\ numRow = MaxRow
  /\ use_bound_perturbation \in BOOLEAN
  /\ has_invert = TRUE
  /\ data_ok = TRUE
  /\ highs_debug_level = FALSE
  /\ solvePhase = "UNKNOWN"
  /\ scaled_model_status = "NOTSET"
  /\ solve_bailout = FALSE
  /\ rebuild_reason = "NO"
  /\ variable_in = NoVar
  /\ row_out = NoRow
  /\ has_fresh_rebuild = FALSE
  /\ num_flip_since_rebuild = 0
  /\ update_count = 0
  /\ iteration_count = 0
  /\ lp \in { d \in InitialLps : ProperLp(d) }
  /\ computed_infeas = CountInfeas(lp)
  /\ num_primal_infeasibilities = computed_infeas
  /\ bounds_perturbed = FALSE
  /\ allow_bound_perturbation = use_bound_perturbation
  /\ use_hyper_chuzc = FALSE
  /\ h_dirty = FALSE
  /\ h_chuzc = NoChuzc
  /\ h_update = "none"
  /\ h_cleanup = 0
  /\ h_event = "none"
  /\ h_rebuild = NoRebuild
  /\ h_iterate_error = FALSE
  /\ h_bail_status = "none"

\* solve() up to the major solving loop: the set of nonbasic free columns
\* is collected once the entry tests have passed
solveEntryLp(e, t) ==
  LET r == solveEntry(e, t)
  IN  IF r.ret = "none" \/ (numRow > 0 /\ ~r.eng.solve_bailout /\ has_invert)
        THEN [r EXCEPT !.eng.lp = getNonbasicFreeColumnSet(e.lp)]
        ELSE r

LpSolve ==
  /\ pc = "idle"
  /\ \E t \in TimePoll :
       LET r == solveEntryLp(Eng, t)
       IN  /\ SetEng(r.eng)
           /\ return_status' = r.ret
           /\ pc' = IF r.ret = "none" THEN "major" ELSE "returned"
  /\ UNCHANGED <<routine, inputs, utilities>>

LpRebuild ==
  /\ pc = "rebuild"
  /\ \E o \in RebuildInputs(Eng) : SetEng(rebuildLp(Eng, o))
  /\ pc' = "after_rebuild"
  /\ UNCHANGED <<routine, return_status, inputs, utilities>>

LpIterate ==
  /\ pc = "iterate"
  /\ \E k \in KernelInputs(Eng) : SetEng(iterateLp(Eng, k))
  /\ pc' = "after_iterate"
  /\ UNCHANGED <<routine, return_status, inputs, utilities>>

\* the tail of solvePhase2() on the data
solvePhase2EndLp(e, value) ==
  LET c == cleanupLp(e, value)
      r == solvePhase2End(e, c.num_primal_infeasibilities)
  IN  IF r.h_cleanup # e.h_cleanup THEN [r EXCEPT !.lp = c.lp] ELSE r

LpPhaseEnd ==
  /\ pc = "phase_end"
  /\ IF routine = "solvePhase1"
       THEN SetEng(solvePhase1End(Eng))
       ELSE \E value \in CleanupInputs(Eng) :
              SetEng(solvePhase2EndLp(Eng, value))
  /\ pc' = "after_phase"
  /\ UNCHANGED <<routine, return_status, inputs, utilities>>

NextLp ==
  \/ LpSolve
  \/ MajorLoop
  \/ PhaseStart
  \/ LpRebuild
  \/ AfterRebuild
  \/ LpIterate
  \/ AfterIterate
  \/ LpPhaseEnd
  \/ AfterPhase
  \/ Finish

SpecLp == InitLp /\ [][NextLp]_vars

(***************************************************************************)
(* The third specification: one iterate() and the rebuild() it leads to,   *)
(* on data with two rows and a pivotal column given in advance.  The data  *)
(* are those a rebuild() has just left: the phase is the one the count of  *)
(* infeasibilities asks for, the Phase 1 costs are those of                *)
(* phase1ComputeDual(), and in Phase 1 the dual of the entering variable   *)
(* is the one its pivotal column and the costs give.  The tolerances are   *)
(* options of the solve: the primal one is two units of the values, the    *)
(* dual one is the same or smaller.                                        *)
(***************************************************************************)
KernelRows == 2
KernelCols == 2

KernelTolerances == { [primal |-> 2, dual |-> 1], [primal |-> 1, dual |-> 1] }
KernelValues == {0 - 8, 0 - 2, 0 - 1, 0, 7}
KernelEntries == {0 - 4, 0 - 2, 0, 2}
KernelDuals == {0 - 2, 0, 2}
KernelWeights == {WeightUnit, 2 * WeightUnit}

\* the quotient n / a is an integer (or n is infinite)
ExactQuot(n, a) == IsInf(n) \/ n % Abs(a) = 0

\* the steps to the breakpoints of the ratio tests are integers
ExactRatio(d, col) ==
  \A r \in RowsOf(d) :
     col[r] # 0 =>
       LET tol == d.primal_feasibility_tolerance
           low == Minus(d.baseValue[r], d.baseLower[r])
           upp == Minus(d.baseValue[r], d.baseUpper[r])
       IN  /\ ExactQuot(2 * Plus(low, tol), col[r])
           /\ ExactQuot(2 * Minus(upp, tol), col[r])
           /\ ExactQuot(2 * low, col[r])
           /\ ExactQuot(2 * upp, col[r])

\* the Phase 1 dual of q is minus the costs of the basic variables times
\* the pivotal column of q (in halves)
ConsistentDual(d, q, col) ==
  LET RECURSIVE sum(_)
      sum(R) == IF R = {} THEN 0
                ELSE LET r == CHOOSE x \in R : TRUE
                     IN  d.workCost[d.basicIndex[r]] * col[r] + sum(R \ {r})
  IN  2 * d.workDual[q] = 0 - sum(RowsOf(d))

\* the data a rebuild() leaves
KernelLp(type, at_upper, value, tol, dual, col, weight) ==
  LET basic == [r \in 0 .. (KernelRows - 1) |-> KernelCols + r]
      d0 == [MakeLp(KernelCols, KernelRows, type, basic, at_upper) EXCEPT
               !.primal_feasibility_tolerance = tol.primal,
               !.dual_feasibility_tolerance = tol.dual,
               !.devex_weight[0] = weight]
      d1 == getNonbasicFreeColumnSet(computePrimal(d0, value))
      full == [v \in VarsOf(d0) |-> IF v < KernelCols THEN dual[v] ELSE 0]
      d2 == IF CountInfeas(d1) > 0 THEN phase1ComputeDual(d1, full)
            ELSE computeDual(d1, full)
  IN  [d2 EXCEPT !.col_aq = col]

\* the kernel input the data carry: the pivotal column, and a pivotal row
\* that is zero but for the pivot
KernelOf(e, d) ==
  LET k0 == [NoKernel(d) EXCEPT !.col = d.col_aq]
      q == chooseColumn(d)
  IN  IF q = NoVar THEN k0
      ELSE [k0 EXCEPT !.row[q] = PivotEntry(KernelStep(e, d, k0), d.col_aq)]

\* the step the data lead to is one of integers
KernelExact(e, d) ==
  LET q == chooseColumn(d)
      step == KernelStep(e, d, KernelOf(e, d))
  IN  /\ ExactRatio(d, d.col_aq)
      /\ (q # NoVar /\ e.solvePhase = "PHASE_1") => ConsistentDual(d, q, d.col_aq)
      /\ (q # NoVar /\ step.r_out >= 0) =>
            /\ ExactQuot(2 * Minus(d.baseValue[step.r_out],
                                   IF step.move_out = 1
                                     THEN d.baseUpper[step.r_out]
                                     ELSE d.baseLower[step.r_out]),
                         d.col_aq[step.r_out])
            /\ ExactDual(AtDualUpdate(e, d, step), step)

InitKernel ==
  /\ sort = NoSort
  /\ consistent = NoConsistent
  /\ pc = "iterate"
  /\ return_status = "none"
  /\ numRow = KernelRows
  /\ use_bound_perturbation = FALSE
  /\ has_invert = TRUE
  /\ data_ok = TRUE
  /\ highs_debug_level = FALSE
  /\ scaled_model_status = "NOTSET"
  /\ solve_bailout = FALSE
  /\ rebuild_reason = "NO"
  /\ variable_in = NoVar
  /\ row_out = NoRow
  /\ has_fresh_rebuild = TRUE
  /\ num_flip_since_rebuild = 0
  /\ update_count = 0
  /\ iteration_count = 0
  /\ bounds_perturbed = FALSE
  /\ allow_bound_perturbation = FALSE
  /\ h_dirty = FALSE
  /\ h_chuzc = NoChuzc
  /\ h_update = "none"
  /\ h_cleanup = 0
  /\ h_event = "none"
  /\ h_iterate_error = FALSE
  /\ h_bail_status = "none"
  /\ \E type \in LpTypes(0 .. (KernelCols + KernelRows - 1)),
        at_upper \in SUBSET (0 .. (KernelCols - 1)) :
       /\ (\A v \in at_upper : type[v] = "boxed") = TRUE
       /\ \E value \in [0 .. (KernelRows - 1) -> KernelValues],
             tol \in KernelTolerances,
             col \in [0 .. (KernelRows - 1) -> KernelEntries] :
            /\ ExactRatio(KernelLp(type, at_upper, value, tol,
                                   [v \in 0 .. (KernelCols - 1) |-> 0], col,
                                   WeightUnit), col) = TRUE
            /\ \E dual \in [0 .. (KernelCols - 1) -> KernelDuals],
                  weight \in KernelWeights :
                 lp = KernelLp(type, at_upper, value, tol, dual, col, weight)
  /\ ProperLp(lp) = TRUE
  /\ computed_infeas = CountInfeas(lp)
  /\ num_primal_infeasibilities = computed_infeas
  /\ solvePhase = (IF computed_infeas > 0 THEN "PHASE_1" ELSE "PHASE_2")
  /\ routine = (IF computed_infeas > 0 THEN "solvePhase1" ELSE "solvePhase2")
  /\ use_hyper_chuzc = (computed_infeas = 0)
  /\ h_rebuild = NoRebuild
  /\ KernelExact(Eng, lp) = TRUE

\* iterate() with the kernel input the data carry; updateFactor() may ask
\* for a reinversion
KernelIterate ==
  /\ pc = "iterate"
  /\ \E synthetic \in BOOLEAN :
       SetEng(iterateLp(Eng, [KernelOf(Eng, lp) EXCEPT !.synthetic = synthetic]))
  /\ pc' = "after_iterate"
  /\ UNCHANGED <<routine, return_status, inputs, utilities>>

\* the rebuild() the iteration asked for
KernelRebuild ==
  /\ pc = "after_iterate"
  /\ rebuild_reason # "NO"
  /\ solvePhase \in {"PHASE_1", "PHASE_2"}
  /\ \E o \in RebuildInputs(Eng) : SetEng(rebuildLp(Eng, o))
  /\ pc' = "after_rebuild"
  /\ UNCHANGED <<routine, return_status, inputs, utilities>>

NextKernel ==
  \/ KernelIterate
  \/ KernelRebuild

SpecKernel == InitKernel /\ [][NextKernel]_vars

(***************************************************************************)
(* Properties of the phase driver.                                         *)
(***************************************************************************)
\* the phase routine has returned to solve(), or solve() is past it
PhaseRoutineLeft == pc \in {"after_phase", "finish", "returned"}

\* the last CHUZC ran in Phase 2 on fresh rebuild data and found no column
FreshNonePhase2 ==
  /\ h_chuzc.phase = "PHASE_2"
  /\ ~h_chuzc.found
  /\ h_chuzc.fresh

\* C1: solvePhase = OPTIMAL, and the model status OPTIMAL, occur only when
\* the last Phase-2 CHUZC found no column (variable_in = -1) directly after a
\* rebuild, cleanup() has run after it and left no primal infeasibility;
\* solve() then returns OK with status OPTIMAL.  If that cleanup() leaves a
\* positive number of infeasibilities, solvePhase is CLEANUP, OPTIMAL is not
\* declared and solve() returns OK.
C1_OptimalOnlyAfterCleanCleanup ==
  /\ (solvePhase = "OPTIMAL" \/ scaled_model_status = "OPTIMAL") =>
        /\ FreshNonePhase2
        /\ h_chuzc.cleaned
        /\ h_cleanup >= 1
        /\ variable_in = NoVar
        /\ num_primal_infeasibilities = 0
  /\ (pc = "returned" /\ solvePhase = "OPTIMAL") =>
        /\ return_status = "OK"
        /\ scaled_model_status = "OPTIMAL"
  /\ (h_chuzc.cleaned /\ ~h_chuzc.found /\ num_primal_infeasibilities > 0) =>
        /\ FreshNonePhase2
        /\ solvePhase = "CLEANUP"
        /\ scaled_model_status # "OPTIMAL"
        /\ (pc = "returned" => return_status = "OK")
  /\ solvePhase = "CLEANUP" =>
        /\ FreshNonePhase2
        /\ h_chuzc.cleaned
        /\ num_primal_infeasibilities > 0

C1_Witness ==
  /\ pc = "returned"
  /\ solvePhase = "OPTIMAL"
  /\ return_status = "OK"
  /\ h_cleanup >= 1
  /\ iteration_count > 0

\* C2: solvePhase1 declares PRIMAL_INFEASIBLE (and sets solvePhase = EXIT)
\* only when the most recent CHUZC of this Phase-1 pass found no column
\* directly after a rebuild and num_primal_infeasibilities > 0.
C2_InfeasibleOnlyWhenFreshNone ==
  h_event = "infeasible" =>
    /\ h_chuzc.phase = "PHASE_1"
    /\ ~h_chuzc.found
    /\ h_chuzc.fresh
    /\ num_primal_infeasibilities > 0

\* C3: when the last rebuild() of a solvePhase1 pass found zero primal
\* infeasibilities, solvePhase1 returns with solvePhase = PHASE_2 and has
\* not declared PRIMAL_INFEASIBLE, whatever variable_in holds.
C3_ZeroInfeasibilitiesLeadToPhase2 ==
  (routine = "solvePhase1" /\ pc = "after_phase" /\ h_rebuild.outcome = "zero") =>
    /\ solvePhase = "PHASE_2"
    /\ scaled_model_status # "PRIMAL_INFEASIBLE"

\* the last iterate() directly followed a rebuild in Phase 2, had an entering
\* variable, found no leaving row and no flip, with no bound perturbed
UnboundedCase ==
  /\ h_chuzc.phase = "PHASE_2"
  /\ h_chuzc.found
  /\ h_chuzc.fresh
  /\ ~h_chuzc.perturbed
  /\ rebuild_reason = "POSSIBLY_PRIMAL_UNBOUNDED"

\* C4 as stated: in the unbounded case solvePhase becomes EXIT, the status
\* PRIMAL_UNBOUNDED and solve() returns OK.
C4_UnboundedExitAlways ==
  (UnboundedCase /\ PhaseRoutineLeft) =>
    /\ solvePhase = "EXIT"
    /\ scaled_model_status = "PRIMAL_UNBOUNDED"
    /\ (pc = "returned" => return_status = "OK")

\* C4, amended: in the unbounded case solvePhase becomes EXIT, the status
\* PRIMAL_UNBOUNDED and solve() returns OK, unless the limit oracle reports at
\* the poll that follows that iterate(): then solvePhase stays PHASE_2, the
\* status is left as it was and solve() returns Warning.
C4_UnboundedExitUnlessBailout ==
  (UnboundedCase /\ PhaseRoutineLeft) =>
    IF solve_bailout
      THEN /\ solvePhase = "PHASE_2"
           /\ scaled_model_status = h_bail_status
           /\ (pc = "returned" => return_status = "Warning")
      ELSE /\ solvePhase = "EXIT"
           /\ scaled_model_status = "PRIMAL_UNBOUNDED"
           /\ (pc = "returned" => return_status = "OK")

C4_Witness ==
  /\ UnboundedCase
  /\ pc = "returned"
  /\ return_status = "OK"
  /\ solvePhase = "EXIT"
  /\ scaled_model_status = "PRIMAL_UNBOUNDED"

\* C5: scaled_model_status is PRIMAL_UNBOUNDED only if the unbounded exit
\* (no leaving row, no flip, bounds not perturbed) was taken; the branch that
\* runs cleanup() to reassess assigns no model status.
C5_UnboundedStatusOnlyFromExit ==
  scaled_model_status = "PRIMAL_UNBOUNDED" => h_event = "unbounded"

\* C7: once the limit oracle has reported, no rebuild() and no iterate() is
\* executed any more (control is on its way out of solve()), the model status
\* is the one met by the reporting poll, and solve() returns Warning.
C7_BailoutStopsTheSolve ==
  /\ solve_bailout =>
        /\ pc \in {"after_phase", "returned"}
        /\ scaled_model_status = h_bail_status
        /\ (pc = "returned" => return_status = "Warning")
  /\ return_status = "Warning" => solve_bailout

C7_Witness ==
  /\ pc = "returned"
  /\ solve_bailout
  /\ return_status = "Warning"
  /\ h_update = "pivot"
  /\ iteration_count >= IterationLimit

\* C8 as stated: whenever iterate() sets solvePhase = PHASE_ERROR it has
\* applied no update, and solve() returns Error with status SOLVE_ERROR,
\* whether or not the limit oracle reports at the poll that follows.
C8_IterateErrorReturnsError ==
  h_iterate_error =>
    /\ h_update = "none"
    /\ solvePhase = "ERROR"
    /\ (pc = "returned" =>
          /\ return_status = "Error"
          /\ scaled_model_status = "SOLVE_ERROR")

\* C8, amended: whenever iterate() sets solvePhase = PHASE_ERROR it has
\* applied no update and no further engine step is taken; solve() returns
\* Error with status SOLVE_ERROR, unless the limit oracle reports at the poll
\* that follows that iterate(): then solve() returns Warning and the status is
\* left as it was.
C8_IterateErrorReturnsErrorUnlessBailout ==
  h_iterate_error =>
    /\ h_update = "none"
    /\ solvePhase = "ERROR"
    /\ pc \in {"after_iterate", "after_phase", "returned"}
    /\ (pc = "returned" =>
          IF solve_bailout
            THEN /\ return_status = "Warning"
                 /\ scaled_model_status = h_bail_status
            ELSE /\ return_status = "Error"
                 /\ scaled_model_status = "SOLVE_ERROR")

C8_Witness ==
  /\ pc = "returned"
  /\ h_iterate_error
  /\ return_status = "Error"
  /\ scaled_model_status = "SOLVE_ERROR"
  /\ h_chuzc.found

\* what a rebuild() that has met a rank deficient basis leaves behind
RankDeficientRebuild ==
  h_rebuild.outcome = "rank_deficient" =>
    /\ h_rebuild.reinvert
    /\ update_count > 0
    /\ solvePhase = "ERROR"
    /\ pc \in {"after_rebuild", "after_phase", "returned"}
    /\ (pc = "returned" =>
          /\ return_status = "Error"
          /\ scaled_model_status = "SOLVE_ERROR")

\* what a rebuild() step changes when it fails, and when it does not refactor
RebuildStep ==
  pc = "rebuild" =>
    /\ h_rebuild'.reinvert = (update_count > 0)
    /\ update_count = 0 => h_rebuild'.outcome # "rank_deficient"
    /\ h_rebuild'.outcome = "rank_deficient" =>
          /\ update_count > 0
          /\ UNCHANGED <<update_count, num_primal_infeasibilities,
                         computed_infeas, has_fresh_rebuild,
                         num_flip_since_rebuild, use_hyper_chuzc,
                         scaled_model_status, variable_in, row_out>>
          /\ solvePhase' = "ERROR"

\* C9: a rebuild() with update_count > 0 whose refactorisation is rank
\* deficient sets solvePhase = PHASE_ERROR and returns with the primal values,
\* the infeasibility count and update_count as they were; the phase routine
\* returns at once and solve() returns Error with status SOLVE_ERROR.  With
\* update_count = 0 rebuild() does not refactor.
C9_RankDeficiencyAborts == [](RankDeficientRebuild) /\ [][RebuildStep]_vars

C9_Witness ==
  /\ pc = "returned"
  /\ h_rebuild.outcome = "rank_deficient"
  /\ return_status = "Error"
  /\ scaled_model_status = "SOLVE_ERROR"
  /\ update_count > 0

\* solve() has returned without a phase routine, a rebuild(), an iterate() or
\* a cleanup() having run, and with solvePhase and the model status untouched
ReturnedAtEntry ==
  /\ pc = "returned"
  /\ solvePhase = "UNKNOWN"
  /\ scaled_model_status = "NOTSET"
  /\ routine = "none"
  /\ h_rebuild = NoRebuild
  /\ h_chuzc = NoChuzc
  /\ h_update = "none"
  /\ h_cleanup = 0
  /\ h_event = "none"
  /\ ~h_dirty

\* C10 as stated: called for an LP with no rows, or without INVERT, solve()
\* returns Error at entry.
C10_NoRowsOrNoInvertIsError ==
  (pc = "returned" /\ (numRow = 0 \/ ~has_invert)) =>
    /\ return_status = "Error"
    /\ ReturnedAtEntry

\* C10, amended: called for an LP with no rows solve() returns Error at
\* entry; called for an LP with rows but without INVERT it returns at entry
\* too, with Warning if the limit oracle polled before the INVERT test
\* reports, and with Error otherwise.
C10_NoRowsOrNoInvertReturnsAtEntry ==
  (pc = "returned" /\ (numRow = 0 \/ ~has_invert)) =>
    /\ ReturnedAtEntry
    /\ numRow = 0 => return_status = "Error" /\ ~solve_bailout
    /\ numRow > 0 =>
          return_status = (IF solve_bailout THEN "Warning" ELSE "Error")

C10_Witness ==
  /\ pc = "returned"
  /\ numRow > 0
  /\ ~has_invert
  /\ return_status = "Error"
  /\ ~solve_bailout

\* C11: after every rebuild() that does not end in PHASE_ERROR, solvePhase is
\* PHASE_1 if and only if num_primal_infeasibilities > 0 and PHASE_2
\* otherwise, rebuild_reason = NO, num_flip_since_rebuild = 0,
\* has_fresh_rebuild is true and update_count = 0.
C11_RebuildPostcondition ==
  (pc = "after_rebuild" /\ solvePhase # "ERROR") =>
    /\ solvePhase \in {"PHASE_1", "PHASE_2"}
    /\ (solvePhase = "PHASE_1") <=> (num_primal_infeasibilities > 0)
    /\ rebuild_reason = "NO"
    /\ num_flip_since_rebuild = 0
    /\ has_fresh_rebuild
    /\ update_count = 0

\* a rebuild() in solvePhase2 refactored the basis, met infeasibilities and
\* went back to Phase 1
C11_Witness ==
  /\ pc = "after_rebuild"
  /\ routine = "solvePhase2"
  /\ solvePhase = "PHASE_1"
  /\ h_rebuild.reinvert
  /\ num_primal_infeasibilities > 0
  /\ update_count = 0

\* iterate() is entered with rebuild_reason = NO, and the tail of a phase
\* routine with fresh rebuild data and no flip since the rebuild
IterateEntry ==
  /\ pc = "iterate" => rebuild_reason = "NO"
  /\ pc = "phase_end" => has_fresh_rebuild /\ num_flip_since_rebuild = 0

\* the step that follows an iterate() that left a rebuild reason, the reset
\* by rebuild(), and the steps that take a terminal decision
InnerLoopStep ==
  /\ (pc = "after_iterate" /\ rebuild_reason # "NO") =>
        /\ pc' \in {"rebuild", "phase_end", "after_phase"}
        /\ pc' = "after_phase" => (solve_bailout' \/ solvePhase = "ERROR")
  /\ pc' = "iterate" => rebuild_reason' = "NO"
  /\ pc = "rebuild" =>
        /\ rebuild_reason' = "NO"
        /\ pc' = "after_rebuild"
  /\ h_event' # h_event =>
        /\ pc = "phase_end"
        /\ has_fresh_rebuild
        /\ num_flip_since_rebuild = 0

\* C12: iterate() is only entered with rebuild_reason = NO; once an iterate()
\* leaves rebuild_reason # NO the inner loop stops and the next engine step
\* is rebuild(), which resets rebuild_reason to NO before the next iterate(),
\* or the terminal decision of the phase; a terminal decision is taken only
\* when has_fresh_rebuild is true and num_flip_since_rebuild = 0.
C12_InnerLoopStopsOnReason == [](IterateEntry) /\ [][InnerLoopStep]_vars

\* an update reached the update limit, the basis was refactored and the next
\* CHUZC, on fresh data, led to the terminal decision
C12_Witness ==
  /\ pc = "after_phase"
  /\ h_event = "optimal"
  /\ h_rebuild.reinvert
  /\ h_rebuild.outcome = "zero"
  /\ has_fresh_rebuild
  /\ num_flip_since_rebuild = 0
  /\ iteration_count > 0

(***************************************************************************)
(* Properties of the simplex data.                                         *)
(***************************************************************************)
\* the arrays of the simplex data, without the history kept with them
DataOf(d) ==
  [baseValue |-> d.baseValue, workValue |-> d.workValue,
   workDual |-> d.workDual, workCost |-> d.workCost,
   workLower |-> d.workLower, workUpper |-> d.workUpper,
   workLowerShift |-> d.workLowerShift, workUpperShift |-> d.workUpperShift,
   devex_weight |-> d.devex_weight,
   nonbasicFlag |-> d.nonbasicFlag, nonbasicMove |-> d.nonbasicMove,
   basicIndex |-> d.basicIndex,
   nonbasic_free_col_set |-> d.nonbasic_free_col_set]

EarlyReasons ==
  {"POSSIBLY_OPTIMAL", "POSSIBLY_PRIMAL_UNBOUNDED", "POSSIBLY_SINGULAR_BASIS"}

\* C13: an iterate() that returns early with rebuild_reason POSSIBLY_OPTIMAL,
\* POSSIBLY_PRIMAL_UNBOUNDED or POSSIBLY_SINGULAR_BASIS leaves the values,
\* duals, costs, bounds, shifts, Devex weights, basis, S_free,
\* num_primal_infeasibilities, iteration_count and update_count as they were
\* at its start; POSSIBLY_SINGULAR_BASIS is raised only when update_count > 0.
EarlyReturnStep ==
  (pc = "iterate" /\ pc' = "after_iterate" /\ rebuild_reason' \in EarlyReasons) =>
     /\ DataOf(lp') = DataOf(lp)
     /\ num_primal_infeasibilities' = num_primal_infeasibilities
     /\ iteration_count' = iteration_count
     /\ update_count' = update_count
     /\ rebuild_reason' = "POSSIBLY_SINGULAR_BASIS" => update_count > 0

C13_EarlyReturnFrame == [][EarlyReturnStep]_vars

\* a pivot found numerically troublesome after an update, and abandoned
C13_Witness ==
  /\ pc = "after_iterate"
  /\ rebuild_reason = "POSSIBLY_SINGULAR_BASIS"
  /\ update_count > 0
  /\ lp.h_last.kind = "none"
  /\ lp.h_last.v_out # NoVar

\* the steps of a pivoting update() of the phase, in the order of the source
PivotOrder(phase) ==
  (IF phase = "PHASE_1" THEN <<"primal", "dual_refresh">> ELSE <<"primal">>)
  \o <<"value_in", "dual", "devex", "free", "pivots", "factor", "iteration_count">>

\* C14: within a pivoting update(), in Phase 1 the primal values and
\* synthetic costs are updated before the duals are refreshed; the dual
\* update precedes the Devex weight update; and the basis and factor update
\* comes after every primal, dual, cost and weight update, followed only by
\* the iteration counter and the Devex reset.
C14_UpdateOrder ==
  (pc = "after_iterate" /\ h_update = "pivot") =>
     \/ lp.h_order = PivotOrder(solvePhase)
     \/ lp.h_order = PivotOrder(solvePhase) \o <<"reset">>

\* a Phase 1 pivot
C14_Witness ==
  /\ pc = "after_iterate" /\ h_update = "pivot" /\ solvePhase = "PHASE_1"
  /\ Len(lp.h_order) = 9
  /\ lp.h_order[2] = "dual_refresh"
  /\ lp.h_order[4] = "dual" /\ lp.h_order[5] = "devex"

\* q passes its opposite bound by more than margin
Crosses(d, q, move_in, value, margin) ==
  IF move_in > 0 THEN value > Plus(d.workUpper[q], margin)
  ELSE value < Minus(d.workLower[q], margin)

\* an iterate() that got as far as the bound swap decision
ReachedSwap ==
  /\ pc = "iterate" /\ pc' = "after_iterate"
  /\ lp'.h_last.q # NoVar
  /\ solvePhase' # "ERROR"

\* the effect of a bound flip of q
FlipEffect ==
  LET q == lp'.h_last.q
      move_in == lp'.h_last.move_in
  IN  /\ lp'.workValue[q] = (IF move_in > 0 THEN lp.workUpper[q] ELSE lp.workLower[q])
      /\ lp'.nonbasicMove[q] = 0 - move_in
      /\ lp'.primal_bound_swap = lp.primal_bound_swap + 1
      /\ num_flip_since_rebuild' = num_flip_since_rebuild + 1
      /\ lp'.nonbasicFlag = lp.nonbasicFlag
      /\ lp'.basicIndex = lp.basicIndex
      /\ update_count' = update_count
      /\ iteration_count' = iteration_count
      /\ lp'.devex_weight = lp.devex_weight
      /\ lp'.nonbasic_free_col_set = lp.nonbasic_free_col_set

\* the iteration is a bound flip when q passes its opposite bound by more
\* than margin
FlipStep(margin) ==
  ReachedSwap =>
    LET q == lp'.h_last.q
        move_in == lp'.h_last.move_in
        value == lp'.h_last.would_be
    IN  /\ Crosses(lp, q, move_in, value, margin) => h_update' = "flip"
        /\ h_update' = "flip" => FlipEffect

FreeVars(d) ==
  { v \in VarsOf(d) : /\ d.workLower[v] <= 0 - HIGHS_CONST_INF
                      /\ d.workUpper[v] >= HIGHS_CONST_INF }

NonbasicFreeVars(d) == { v \in FreeVars(d) : d.nonbasicFlag[v] = 1 }

\* solve() has collected S_free and has not returned
Collected == pc \notin {"idle", "returned"}

\* an iterate() that pivots
PivotStep ==
  /\ pc = "iterate" /\ pc' = "after_iterate"
  /\ lp'.h_last.kind = "pivot"

FreeSetStep ==
  /\ PivotStep =>
       /\ lp'.h_last.member = (lp'.h_last.q \in lp.nonbasic_free_col_set)
       /\ lp'.nonbasic_free_col_set = lp.nonbasic_free_col_set \ {lp'.h_last.q}
       /\ lp'.h_last.v_out \notin FreeVars(lp)
       /\ lp'.nonbasicFlag[lp'.h_last.v_out] = 1
  /\ (pc = "iterate" /\ ~PivotStep) =>
       lp'.nonbasic_free_col_set = lp.nonbasic_free_col_set

\* C16: outside an iteration, a variable is in S_free exactly when it is
\* free (both working bounds infinite) and nonbasic; a pivot removes the
\* entering variable from S_free exactly when it was a member and changes
\* S_free in no other way, and the variable that leaves the basis is never
\* free.
C16_FreeSetMaintained ==
  /\ [](Collected => lp.nonbasic_free_col_set = NonbasicFreeVars(lp))
  /\ [][FreeSetStep]_vars

\* a free variable has entered the basis and left S_free
C16_Witness ==
  /\ pc = "after_iterate" /\ lp.h_last.kind = "pivot"
  /\ lp.h_last.member
  /\ lp.h_last.q \in FreeVars(lp)
  /\ lp.nonbasicFlag[lp.h_last.q] = 0
  /\ lp.nonbasic_free_col_set = {}

\* C17 as stated: outside an iteration the number of entries of S_free is
\* num_free_col, the number of free variables.
C17_FreeSetCountsAllFree ==
  Collected => Cardinality(lp.nonbasic_free_col_set) = lp.num_free_col

\* C17, amended: outside an iteration the number of entries of S_free is
\* the number of nonbasic free variables, which is num_free_col less the
\* number of free variables in the basis.
C17_FreeSetCountsNonbasicFree ==
  Collected =>
    /\ lp.num_free_col = Cardinality(FreeVars(lp))
    /\ Cardinality(lp.nonbasic_free_col_set)
         = lp.num_free_col
             - Cardinality({ v \in FreeVars(lp) : lp.nonbasicFlag[v] = 0 })

\* the free variable is basic and S_free is empty
C17_Witness ==
  /\ Collected
  /\ lp.num_free_col = 1
  /\ \E v \in FreeVars(lp) : lp.nonbasicFlag[v] = 0
  /\ lp.nonbasic_free_col_set = {}

\* the reference framework is the set of nonbasic variables
IndexIsFlagSquared(d) ==
  \A v \in VarsOf(d) : d.devex_index[v] = d.nonbasicFlag[v] * d.nonbasicFlag[v]

DevexIndexStep ==
  IF PivotStep /\ lp'.h_last.reset
    THEN IndexIsFlagSquared(lp')
    ELSE lp'.devex_index = lp.devex_index

C19_DevexWeightAtLeastOne ==
  \A v \in VarsOf(lp) : lp.devex_weight[v] >= WeightUnit

\* a pivot has raised a weight above 1, set the weight of the entering
\* variable to 1 and left the reference framework stale
C19_Witness ==
  /\ pc = "after_iterate" /\ lp.h_last.kind = "pivot"
  /\ ~lp.h_last.reset
  /\ lp.devex_weight[lp.h_last.q] = WeightUnit
  /\ \E v \in VarsOf(lp) : lp.devex_weight[v] > WeightUnit
  /\ iteration_count = 2

\* a step in which cleanup() ran
CleanupStep == h_cleanup' # h_cleanup

BoundsRestored(d) ==
  /\ \A v \in VarsOf(d) : d.workLowerShift[v] = 0 /\ d.workUpperShift[v] = 0
  /\ d.workLower = d.lpLower
  /\ d.workUpper = d.lpUpper

\* C20: after cleanup() returns, work_lower_shift[v] = 0 and
\* work_upper_shift[v] = 0 for every variable v, and work_lower and
\* work_upper are the original, unshifted bounds.
C20_CleanupRestoresBounds == [][CleanupStep => BoundsRestored(lp')]_vars

\* cleanup() has run on data with a shifted bound
C20_Witness ==
  /\ pc = "after_phase"
  /\ h_cleanup >= 1
  /\ lp.h_shifted
  /\ BoundsRestored(lp)

(***************************************************************************)
(* Properties of cleanup() in the solve.                                   *)
(***************************************************************************)
\* C21 as stated: after cleanup() has returned bounds_perturbed is false,
\* and solve() then ends with solvePhase OPTIMAL or CLEANUP.
C21_AfterCleanupOptimalOrHandOff ==
  h_cleanup >= 1 =>
    /\ ~bounds_perturbed
    /\ (pc = "returned" => solvePhase \in {"OPTIMAL", "CLEANUP"})

\* C21, amended: after cleanup() has returned bounds_perturbed is false for
\* the rest of the solve.  When cleanup() ran because CHUZC found no column,
\* solvePhase is OPTIMAL or CLEANUP from then on and solve() returns OK.
\* When it ran because no leaving row and no flip was found with perturbed
\* bounds, solvePhase2() returns with solvePhase = PHASE_2 and the major
\* loop goes on.
C21_AfterCleanupNotPerturbed ==
  /\ h_cleanup >= 1 => ~bounds_perturbed /\ ~allow_bound_perturbation
  /\ (h_chuzc.cleaned /\ ~h_chuzc.found) =>
        /\ solvePhase \in {"OPTIMAL", "CLEANUP"}
        /\ PhaseRoutineLeft
        /\ (pc = "returned" => return_status = "OK")
  /\ (h_chuzc.cleaned /\ h_chuzc.found /\ pc = "after_phase") =>
        /\ h_chuzc.perturbed
        /\ solvePhase = "PHASE_2"
        /\ ~solve_bailout

\* cleanup() ran to reassess, and the solve went on to another iteration
\* and ended otherwise than in OPTIMAL or CLEANUP
C21_Witness ==
  /\ pc = "returned"
  /\ h_cleanup >= 1
  /\ ~h_chuzc.cleaned
  /\ ~bounds_perturbed
  /\ solvePhase = "EXIT"

\* the working bounds and their shifts are those of the state before
ShiftsKept ==
  /\ lp'.workLowerShift = lp.workLowerShift
  /\ lp'.workUpperShift = lp.workUpperShift
  /\ lp'.workLower = lp.workLower
  /\ lp'.workUpper = lp.workUpper

\* a Phase-2 pivot whose entering variable takes a value beyond one of its
\* bounds by more than the tolerance
InfeasibleValueInStep ==
  /\ PivotStep
  /\ solvePhase = "PHASE_2"
  /\ ValueInCost(lp, lp'.h_last.q, lp'.h_last.would_be) # 0

AfterCleanupStep ==
  /\ CleanupStep => ~allow_bound_perturbation'
  /\ (h_cleanup >= 1 /\ pc = "iterate") =>
        /\ ShiftsKept
        /\ ~bounds_perturbed'
  /\ (h_cleanup >= 1 /\ InfeasibleValueInStep) =>
        /\ num_primal_infeasibilities' >= num_primal_infeasibilities + 1
        /\ rebuild_reason' = "PRIMAL_INFEASIBLE_IN_PRIMAL_SIMPLEX"

BasisConsistent(d) ==
  /\ \A r1, r2 \in RowsOf(d) : d.basicIndex[r1] = d.basicIndex[r2] => r1 = r2
  /\ { d.basicIndex[r] : r \in RowsOf(d) } = { v \in VarsOf(d) : d.nonbasicFlag[v] = 0 }

\* an iterate() that flips a bound
FlipDone ==
  /\ pc = "iterate" /\ pc' = "after_iterate"
  /\ lp'.h_last.kind = "flip"

BasisStep ==
  /\ PivotStep =>
       /\ lp.nonbasicFlag[lp'.h_last.q] = 1
       /\ row_out' \in RowsOf(lp)
       /\ lp'.h_last.v_out = lp.basicIndex[row_out']
       /\ lp'.basicIndex = [lp.basicIndex EXCEPT ![row_out'] = lp'.h_last.q]
       /\ lp'.nonbasicFlag = [lp.nonbasicFlag EXCEPT ![lp'.h_last.q] = 0,
                                                     ![lp'.h_last.v_out] = 1]
  /\ FlipDone =>
       /\ lp.nonbasicFlag[lp'.h_last.q] = 1
       /\ lp'.basicIndex = lp.basicIndex
       /\ lp'.nonbasicFlag = lp.nonbasicFlag
  /\ BasisConsistent(lp)
  /\ BasisConsistent(lp')

AtBound(d, v) ==
  IF d.workLower[v] <= 0 - HIGHS_CONST_INF /\ d.workUpper[v] >= HIGHS_CONST_INF
    THEN d.workValue[v] = 0 /\ d.nonbasicMove[v] = 0
  ELSE IF d.workLower[v] = d.workUpper[v]
    THEN d.workValue[v] = d.workLower[v] /\ d.nonbasicMove[v] = 0
  ELSE \/ /\ d.nonbasicMove[v] = 1
          /\ d.workValue[v] = d.workLower[v]
          /\ d.workLower[v] > 0 - HIGHS_CONST_INF
       \/ /\ d.nonbasicMove[v] = 0 - 1
          /\ d.workValue[v] = d.workUpper[v]
          /\ d.workUpper[v] < HIGHS_CONST_INF

RebuildRecount ==
  /\ pc = "after_iterate"
  /\ pc' = "after_rebuild"
  /\ solvePhase' # "ERROR"

\* C23: at every rebuild() the count of primal infeasibilities kept by the
\* updates equals the number of basic variables that violate a bound by
\* more than the primal feasibility tolerance, so that the assertion of
\* getBasicPrimalInfeasibility() holds.
C23_CountMatchesRecount ==
  [][RebuildRecount => num_primal_infeasibilities = CountInfeas(lp')]_vars


\* sum_primal_infeasibilities of getBasicPrimalInfeasibility(): the amounts
\* by which the basic variables beyond the tolerance violate their bounds
SumInfeas(d) ==
  LET amount(r) ==
        IF Violation(d, r, d.primal_feasibility_tolerance) < 0
          THEN d.baseLower[r] - d.baseValue[r]
        ELSE IF Violation(d, r, d.primal_feasibility_tolerance) > 0
          THEN d.baseValue[r] - d.baseUpper[r]
        ELSE 0
      RECURSIVE sum(_)
      sum(R) == IF R = {} THEN 0
                ELSE LET r == CHOOSE x \in R : TRUE
                     IN  amount(r) + sum(R \ {r})
  IN  sum(RowsOf(d))

\* C26: a Phase 1 pivot without bound flip and without bound perturbation
\* does not increase the sum of the primal infeasibilities of the basic
\* variables, the entering variable at its new value included.
C26_Phase1SumNotIncreased ==
  [][(PivotStep /\ solvePhase = "PHASE_1" /\ ~bounds_perturbed')
       => SumInfeas(lp') <= SumInfeas(lp)]_vars


\* the dual infeasibility of v: |workDual| for a nonbasic free column,
\* -nonbasicMove * workDual otherwise
DualInf(d, v) ==
  IF v \in d.nonbasic_free_col_set THEN Abs(d.workDual[v])
  ELSE (0 - d.nonbasicMove[v]) * d.workDual[v]

\* the variables whose dual infeasibility exceeds the tolerance
Attractive(d) ==
  { v \in VarsOf(d) : DualInf(d, v) > d.dual_feasibility_tolerance }

\* an iterate() that gets as far as CHUZC
ChuzcDone == pc = "iterate" /\ pc' = "after_iterate" /\ ~h_iterate_error'

FullChuzcStep ==
  ChuzcDone =>
    LET q == chooseColumn(lp)
    IN  /\ (q = NoVar) <=> (Attractive(lp) = {})
        /\ q # NoVar =>
              /\ q \in Attractive(lp)
              /\ lp.nonbasicFlag[q] = 1
              /\ \A v \in Attractive(lp) :
                    DualInf(lp, q) * lp.devex_weight[v]
                      >= DualInf(lp, v) * lp.devex_weight[q]
              /\ ~use_hyper_chuzc => variable_in' = q
              /\ lp'.h_last.kind # "none" => lp'.h_last.q = q
        /\ q = NoVar =>
              /\ rebuild_reason' = "POSSIBLY_OPTIMAL"
              /\ variable_in' = NoVar
              /\ lp' = lp

\* C28: the full CHUZC returns a variable of the largest measure
\* dual infeasibility / devex_weight among the variables whose dual
\* infeasibility exceeds the dual feasibility tolerance, never a basic one;
\* it returns -1 exactly when there is none, and iterate() then sets
\* rebuild_reason = POSSIBLY_OPTIMAL.
C28_FullChuzcBestMeasure == [][FullChuzcStep]_vars

\* a variable was chosen for its weight: the other attractive variable has
\* the same dual infeasibility and a larger weight
C28_Witness ==
  /\ pc = "after_iterate"
  /\ lp.h_last.kind = "flip"
  /\ lp.h_last.q = 1
  /\ Abs(lp.workDual[0]) = Abs(lp.workDual[1])
  /\ 0 \in Attractive(lp)
  /\ lp.devex_weight[0] > lp.devex_weight[1]


\* the rows that block the entering variable at a finite bound
Blocking(d, col, move_in) ==
  { r \in RowsOf(d) :
      \/ col[r] * move_in > 0 /\ d.baseLower[r] > 0 - HIGHS_CONST_INF
      \/ col[r] * move_in < 0 /\ d.baseUpper[r] < HIGHS_CONST_INF }

\* the room row r has before its bound moved out by slack; the step to
\* that point is 2 * Room / |col[r]|
Room(d, col, move_in, r, slack) ==
  IF col[r] * move_in > 0
    THEN d.baseValue[r] - d.baseLower[r] + slack
    ELSE d.baseUpper[r] - d.baseValue[r] + slack

\* the tight step of row r is smaller than every relaxed step (strict), or
\* not larger than any
TightWithinRelaxed(d, col, move_in, r, strict) ==
  \A y \in Blocking(d, col, move_in) :
     LET lhs == Room(d, col, move_in, r, 0) * Abs(col[y])
         rhs == Room(d, col, move_in, y, d.primal_feasibility_tolerance)
                  * Abs(col[r])
     IN  IF strict THEN lhs < rhs ELSE lhs <= rhs

\* the ratio test of Phase 2 against the rows its two passes admit
RatioTest(d, col, move_in, r, strict) ==
  LET cand == { x \in Blocking(d, col, move_in) :
                  TightWithinRelaxed(d, col, move_in, x, strict) }
  IN  /\ (r = NoRow) <=> (Blocking(d, col, move_in) = {})
      /\ r # NoRow =>
            /\ r \in cand
            /\ \A x \in cand : Abs(col[r]) >= Abs(col[x])

\* an iterate() of Phase 2 that gets as far as CHUZR
ChuzrDone == ChuzcDone /\ solvePhase = "PHASE_2" /\ chooseColumn(lp) # NoVar

RatioTestStep ==
  ChuzrDone =>
    LET move_in == MoveIn(lp, chooseColumn(lp))
        r == chooseRowLp(lp, lp.col_aq, move_in)
    IN  /\ RatioTest(lp, lp.col_aq, move_in, r, TRUE)
        /\ r # NoRow => TightWithinRelaxed(lp, lp.col_aq, move_in, r, FALSE)
        /\ lp'.h_last.kind = "pivot" => row_out' = r

ThetaMax(d, col, theta_dual, R) ==
  LET RECURSIVE passed(_)
      passed(k) == IF k = 0 THEN 0
                   ELSE Abs(col[RowOfIndex(d, R[k][2])]) + passed(k - 1)
      ahead == { k \in 1 .. Len(R) :
                   \A j \in 1 .. k : 2 * Abs(theta_dual) - passed(j) > 0 }
  IN  IF ahead = {} THEN R[1][1]
      ELSE R[CHOOSE k \in ahead : \A j \in ahead : j <= k][1]

\* the Phase 1 ratio test against the lists R and T
Phase1RatioTest(d, col, theta_dual, R, T, res) ==
  /\ (res.row_out = NoRow) <=> (Len(R) = 0)
  /\ Len(R) > 0 =>
       LET theta_max == ThetaMax(d, col, theta_dual, R)
           absAlpha(i) == Abs(col[RowOfIndex(d, T[i][2])])
           adm == { i \in 1 .. Len(T) : T[i][1] <= theta_max }
           good == { i \in adm : \A j \in adm : 10 * absAlpha(i) > absAlpha(j) }
       IN  \E i \in good :
              /\ \A j \in good : j <= i
              /\ res.row_out = RowOfIndex(d, T[i][2])
              /\ res.move_out = (IF T[i][2] >= 0 THEN 1 ELSE 0 - 1)
              /\ \A j \in adm : 10 * Abs(col[res.row_out]) >= absAlpha(j)

Phase1RatioTestStep ==
  (ChuzcDone /\ solvePhase = "PHASE_1" /\ chooseColumn(lp) # NoVar) =>
    LET q == chooseColumn(lp)
        move_in == MoveIn(lp, q)
        res == phase1ChooseRowLp(lp, lp.col_aq, move_in, lp.workDual[q])
    IN  /\ Phase1RatioTest(lp, lp.col_aq, lp.workDual[q],
                           Ph1List(lp, lp.col_aq, move_in, TRUE),
                           Ph1List(lp, lp.col_aq, move_in, FALSE), res)
        /\ lp'.h_last.kind = "pivot" => row_out' = res.row_out
        /\ res.row_out = NoRow => lp'.h_last.kind = "none"

Measure(d, infeasibility, iCol) ==
  (MeasureScale * infeasibility) \div d.devex_weight[iCol]

\* infeasibility > measure * devex_weight[iCol]
ExceedsMeasure(d, infeasibility, measure, iCol) ==
  MeasureScale * infeasibility > measure * d.devex_weight[iCol]

\* HEkkPrimal::hyperChooseColumnStart
hyperChooseColumnStart(d) ==
  [d EXCEPT !.hyper.max_changed_measure_value = 0,
            !.hyper.max_changed_measure_column = NoVar,
            !.hyper.done_next_chuzc = FALSE]

\* a hyperChooseColumnClear that leaves done_next_chuzc as it finds it
hyperChooseColumnClear_KeepsDone(d, use) ==
  [d EXCEPT !.hyper.initialise_hyper_chuzc = use,
            !.hyper.max_hyper_chuzc_non_candidate_measure = NoMeasure]

\* HEkkPrimal::hyperChooseColumnClear
hyperChooseColumnClear(d, use) ==
  [d EXCEPT !.hyper.initialise_hyper_chuzc = use,
            !.hyper.max_hyper_chuzc_non_candidate_measure = NoMeasure,
            !.hyper.done_next_chuzc = FALSE]

\* HEkkPrimal::hyperChooseColumnChangedInfeasibility
hyperChooseColumnChangedInfeasibility(d, infeasibility, iCol) ==
  LET h == d.hyper
  IN  IF ExceedsMeasure(d, infeasibility, h.max_changed_measure_value, iCol)
        THEN [d EXCEPT !.hyper.max_hyper_chuzc_non_candidate_measure =
                          Max(h.max_changed_measure_value,
                              h.max_hyper_chuzc_non_candidate_measure),
                       !.hyper.max_changed_measure_value =
                          Measure(d, infeasibility, iCol),
                       !.hyper.max_changed_measure_column = iCol]
      ELSE IF ExceedsMeasure(d, infeasibility,
                             h.max_hyper_chuzc_non_candidate_measure, iCol)
        THEN [d EXCEPT !.hyper.max_hyper_chuzc_non_candidate_measure =
                          Measure(d, infeasibility, iCol)]
      ELSE d

RECURSIVE ChangedScan(_, _, _, _)
\* one loop of hyperChooseColumnDualChange() over the columns cols[i..],
\* met as nonbasic free columns (free) or not
ChangedScan(d, cols, free, i) ==
  IF i > Len(cols) THEN d
  ELSE LET inf == DualInfeasibility(d, cols[i], free)
       IN  ChangedScan(IF inf > d.dual_feasibility_tolerance
                         THEN hyperChooseColumnChangedInfeasibility(d, inf, cols[i])
                         ELSE d,
                       cols, free, i + 1)

\* HEkkPrimal::hyperChooseColumnDualChange, for the columns and rows changed
\* that the loops over row_ap and row_ep visit, and the leaving variable
\* v_out
hyperChooseColumnDualChange(d, changed, v_out) ==
  LET cols == SetToSeq({ v \in changed : v < d.num_col })
      rows == SetToSeq({ v \in changed : v >= d.num_col })
      d1 == ChangedScan(d, cols, FALSE, 1)
      d2 == ChangedScan(d1, rows, FALSE, 1)
      d3 == ChangedScan(d2, SetToSeq(d.nonbasic_free_col_set), TRUE, 1)
  IN  ChangedScan(d3, <<v_out>>, FALSE, 1)

RECURSIVE CandidateScan(_, _, _)
\* the loop of hyperChooseColumn() over the candidates i.. against the best
\* so far
CandidateScan(d, i, best) ==
  IF i > Len(d.hyper.hyper_chuzc_candidate) THEN best
  ELSE LET iCol == d.hyper.hyper_chuzc_candidate[i]
           inf == DualInfeasibility(d, iCol, iCol \in d.nonbasic_free_col_set)
           better == /\ d.nonbasicFlag[iCol] = 1
                     /\ inf > d.dual_feasibility_tolerance
                     /\ ExceedsMeasure(d, inf, best.measure, iCol)
       IN  CandidateScan(d, i + 1,
                         IF better
                           THEN [measure |-> Measure(d, inf, iCol),
                                 variable_in |-> iCol]
                           ELSE best)

\* the history notes an entry of hyperChooseColumn() with done_next_chuzc set
EnterHyperChooseColumn(d) ==
  [d EXCEPT !.h_last.entered_done = @ \/ d.hyper.done_next_chuzc]

\* a hyperChooseColumn that accepts its best column whatever the bound on
\* the columns it has not looked at
hyperChooseColumnLp_Accepts(d, use, v_in) ==
  IF ~use \/ d.hyper.initialise_hyper_chuzc
    THEN [lp |-> EnterHyperChooseColumn(d), variable_in |-> v_in]
  ELSE LET h == d.hyper
           best == CandidateScan(d, 1,
                                 [measure |-> h.max_changed_measure_value,
                                  variable_in |-> h.max_changed_measure_column])
       IN  [lp |-> [EnterHyperChooseColumn(d) EXCEPT !.hyper.done_next_chuzc = TRUE],
            variable_in |-> best.variable_in]

\* HEkkPrimal::hyperChooseColumn on the data: the data and variable_in it
\* leaves, v_in being variable_in when it is called
hyperChooseColumnLp(d, use, v_in) ==
  IF ~use \/ d.hyper.initialise_hyper_chuzc
    THEN [lp |-> EnterHyperChooseColumn(d), variable_in |-> v_in]
  ELSE LET h == d.hyper
           best == CandidateScan(d, 1,
                                 [measure |-> h.max_changed_measure_value,
                                  variable_in |-> h.max_changed_measure_column])
           bound == IF best.variable_in # h.max_changed_measure_column
                      THEN Max(h.max_changed_measure_value,
                               h.max_hyper_chuzc_non_candidate_measure)
                      ELSE h.max_hyper_chuzc_non_candidate_measure
           d1 == [EnterHyperChooseColumn(d) EXCEPT
                    !.hyper.max_hyper_chuzc_non_candidate_measure = bound]
       IN  [lp |-> IF best.measure >= bound
                     THEN [d1 EXCEPT !.hyper.done_next_chuzc = TRUE]
                     ELSE [d1 EXCEPT !.hyper.done_next_chuzc = FALSE,
                                     !.hyper.initialise_hyper_chuzc = TRUE],
            variable_in |-> best.variable_in]

\* the number of candidates hyper-sparse CHUZC keeps
max_num_hyper_chuzc_candidates == 1

\* the dual infeasibility the initialisation of the candidates gives a column
InitialInfeasibility(d, v) ==
  DualInfeasibility(d, v, v \in d.nonbasic_free_col_set)

RECURSIVE DecreasingHeap(_, _, _, _)
\* addToDecreasingHeap and sortDecreasingHeap: the (at most) k columns of A
\* of the largest measures, in decreasing order of measure; columns of equal
\* measure come lowest index first or last
DecreasingHeap(d, A, k, low_first) ==
  IF A = {} \/ k = 0 THEN << >>
  ELSE LET m(v) == Measure(d, InitialInfeasibility(d, v), v)
           top == CHOOSE v \in A :
                    \A w \in A : \/ m(v) > m(w)
                                 \/ /\ m(v) = m(w)
                                    /\ IF low_first THEN v <= w ELSE v >= w
       IN  <<top>> \o DecreasingHeap(d, A \ {top}, k - 1, low_first)

\* chooseColumn(true): the data and variable_in it leaves
chooseColumnHyper(d, low_first) ==
  LET r1 == IF ~d.hyper.initialise_hyper_chuzc
              THEN hyperChooseColumnLp(d, TRUE, NoVar)
              ELSE [lp |-> d, variable_in |-> NoVar]
      d1 == r1.lp
      A == { v \in VarsOf(d1) :
               InitialInfeasibility(d1, v) > d1.dual_feasibility_tolerance }
      heap == DecreasingHeap(d1, A, max_num_hyper_chuzc_candidates, low_first)
      d2 == [d1 EXCEPT !.hyper.hyper_chuzc_candidate = heap,
                       !.hyper.initialise_hyper_chuzc = FALSE]
      last == heap[Len(heap)]
  IN  IF ~d1.hyper.initialise_hyper_chuzc THEN r1
      ELSE IF Len(heap) = 0 THEN [lp |-> d2, variable_in |-> r1.variable_in]
      ELSE [lp |-> [d2 EXCEPT !.hyper.max_hyper_chuzc_non_candidate_measure =
                                 Measure(d2, InitialInfeasibility(d2, last), last)],
            variable_in |-> heap[1]]

\* the hyper-sparse path of chuzc(): the data and variable_in it leaves
chuzcHyper(d, v_in, low_first) ==
  IF ~d.hyper.done_next_chuzc THEN chooseColumnHyper(d, low_first)
  ELSE [lp |-> d, variable_in |-> v_in]

(***************************************************************************)
(* Phase 2 with hyper-sparse CHUZC on HyperCols columns and HyperRows      *)
(* rows.  CHUZR and the kernels are left open: an update() flips the       *)
(* entering variable or pivots it with any basic variable that has a bound *)
(* to leave at, and changes the duals and weights of any set of the other  *)
(* nonbasic variables (the nonzeros of row_ap and row_ep).                 *)
(***************************************************************************)
HyperCols == 3
HyperRows == 1
HyperIterations == 2
HyperDuals == {0 - 3, 0, 2}
HyperWeights == {WeightUnit, 2 * WeightUnit}

\* the tail of rebuild(): with the duals recomputed as dual, the records of
\* hyper-sparse CHUZC are cleared for the use_hyper_chuzc just decided
rebuildHyper(d, dual, use) ==
  hyperChooseColumnClear(
    [d EXCEPT !.workDual = [v \in VarsOf(d) |->
                              IF d.nonbasicFlag[v] = 1 THEN dual[v] ELSE 0]],
    use)

\* the bound flip of update(): flipBound and the early return
updateHyperFlip(d, q) ==
  LET move_in == MoveIn(d, q)
      d0 == hyperChooseColumnStart([d EXCEPT !.h_order = NoOrder,
                                             !.h_last.reset = FALSE])
  IN  flipBound(d0, q, move_in,
                IF move_in > 0 THEN d.workUpper[q] ELSE d.workLower[q])

\* the pivot of update(): the duals dual and weights weight that updateDual()
\* and updateDevex() leave, the columns changed that the loops of
\* hyperChooseColumnDualChange() visit, the leaving row and its direction,
\* and whether updateDevex() found too many bad weights
updateHyperPivot(d, use, q, r_out, move_out, dual, weight, changed, reset) ==
  LET v_out == d.basicIndex[r_out]
      d0 == hyperChooseColumnStart([d EXCEPT !.h_order = NoOrder,
                                             !.h_last.reset = reset])
      d1 == [d0 EXCEPT !.workDual = dual, !.devex_weight = weight]
      d2 == removeNonbasicFreeColumn(d1, q)
      d3 == IF use THEN hyperChooseColumnDualChange(d2, changed, v_out) ELSE d2
      d4 == updatePivotsLp(d3, q, r_out, move_out)
  IN  IF reset THEN hyperChooseColumnClear(resetDevex(d4), use) ELSE d4

\* the duals and weights a pivot may leave: those of the columns changed
\* are any, the entering variable has dual 0 and weight 1, the leaving
\* variable has weight 1 and the dual -theta_dual, whose sign is that of a
\* dual feasible variable at the bound it leaves at
PivotOutcomes(d, q, r_out, move_out, changed) ==
  LET v_out == d.basicIndex[r_out]
  IN  { o \in [dual : [VarsOf(d) -> HyperDuals \cup {0}],
               weight : [VarsOf(d) -> HyperWeights]] :
          /\ o.dual[q] = 0
          /\ o.weight[q] = WeightUnit
          /\ o.dual[v_out] * move_out < 0
          /\ o.weight[v_out] = WeightUnit
          /\ \A v \in VarsOf(d) \ (changed \cup {q, v_out}) :
                /\ o.dual[v] = d.workDual[v]
                /\ o.weight[v] = d.devex_weight[v] }

\* the types of the variables followed; the iterations start in Phase 2,
\* after the rebuild() that opens solvePhase2(), and reach Phase 1 by the
\* switch back of a later rebuild()
HyperTypes ==
  { t \in LpTypes(0 .. (HyperCols + HyperRows - 1)) : t[0] # "lower" }

InitHyper ==
  /\ sort = NoSort
  /\ consistent = NoConsistent
  /\ pc = "iterate"
  /\ return_status = "none"
  /\ numRow = HyperRows
  /\ use_bound_perturbation = FALSE
  /\ has_invert = TRUE
  /\ data_ok = TRUE
  /\ highs_debug_level = FALSE
  /\ solvePhase = "PHASE_2"
  /\ routine = "solvePhase2"
  /\ scaled_model_status = "NOTSET"
  /\ solve_bailout = FALSE
  /\ rebuild_reason = "NO"
  /\ variable_in = NoVar
  /\ row_out = NoRow
  /\ has_fresh_rebuild = TRUE
  /\ num_flip_since_rebuild = 0
  /\ update_count = 0
  /\ iteration_count = 0
  /\ computed_infeas = 0
  /\ num_primal_infeasibilities = 0
  /\ bounds_perturbed = FALSE
  /\ allow_bound_perturbation = FALSE
  /\ use_hyper_chuzc = (solvePhase # "PHASE_1")
  /\ h_dirty = FALSE
  /\ h_chuzc = NoChuzc
  /\ h_update = "none"
  /\ h_cleanup = 0
  /\ h_event = "none"
  /\ h_rebuild = NoRebuild
  /\ h_iterate_error = FALSE
  /\ h_bail_status = "none"
  /\ \E type \in HyperTypes,
        basic \in [0 .. (HyperRows - 1) -> 0 .. (HyperCols + HyperRows - 1)],
        at_upper \in SUBSET (0 .. (HyperCols + HyperRows - 1)),
        dual \in [0 .. (HyperCols + HyperRows - 1) -> HyperDuals] :
       /\ (\A r1, r2 \in 0 .. (HyperRows - 1) : basic[r1] = basic[r2] => r1 = r2) = TRUE
       /\ (\A v \in at_upper : type[v] = "boxed" /\ \A r \in 0 .. (HyperRows - 1) : basic[r] # v) = TRUE
       /\ (\A r \in 0 .. (HyperRows - 1) : dual[basic[r]] = 0) = TRUE
       /\ lp = rebuildHyper(getNonbasicFreeColumnSet(
                              MakeLp(HyperCols, HyperRows, type, basic, at_upper)),
                            dual, use_hyper_chuzc)

\* chuzc(): with use_hyper_chuzc the hyper-sparse choice is the entering
\* variable, without it the full choice; with none, iterate() asks for a
\* rebuild
HyperChuzc ==
  /\ pc = "iterate"
  /\ solvePhase \in {"PHASE_1", "PHASE_2"}
  /\ \E low_first \in BOOLEAN :
       LET r == IF use_hyper_chuzc THEN chuzcHyper(lp, variable_in, low_first)
                ELSE [lp |-> lp, variable_in |-> chooseColumn(lp)]
       IN  /\ lp' = r.lp
           /\ variable_in' = r.variable_in
           /\ rebuild_reason' = (IF r.variable_in = NoVar THEN "POSSIBLY_OPTIMAL"
                                 ELSE rebuild_reason)
           /\ pc' = (IF r.variable_in = NoVar THEN "after_iterate" ELSE "pivot")
  /\ UNCHANGED <<routine, return_status, inputs, utilities, history, solvePhase,
                 scaled_model_status, solve_bailout, highs_debug_level, row_out,
                 has_fresh_rebuild, num_flip_since_rebuild, update_count,
                 iteration_count, num_primal_infeasibilities, bounds_perturbed,
                 allow_bound_perturbation, use_hyper_chuzc, computed_infeas>>

\* update() when the entering variable goes to its other bound
HyperFlip ==
  /\ pc = "pivot"
  /\ iteration_count < HyperIterations
  /\ lp.nonbasicMove[variable_in] # 0
  /\ lp.workLower[variable_in] > 0 - HIGHS_CONST_INF
  /\ lp.workUpper[variable_in] < HIGHS_CONST_INF
  /\ lp' = updateHyperFlip(lp, variable_in)
  /\ iteration_count' = iteration_count + 1
  /\ num_flip_since_rebuild' = num_flip_since_rebuild + 1
  /\ row_out' = NoRow
  /\ has_fresh_rebuild' = FALSE
  /\ pc' = "iterate"
  /\ UNCHANGED <<routine, return_status, inputs, utilities, history, solvePhase,
                 scaled_model_status, solve_bailout, highs_debug_level,
                 rebuild_reason, variable_in, update_count,
                 num_primal_infeasibilities, bounds_perturbed,
                 allow_bound_perturbation, use_hyper_chuzc, computed_infeas>>

\* update() when a basic variable leaves: the closing hyperChooseColumn()
\* may already choose the next entering variable
HyperPivot ==
  /\ pc = "pivot"
  /\ iteration_count < HyperIterations
  /\ \E r_out \in RowsOf(lp), move_out \in {0 - 1, 1}, reset \in BOOLEAN,
        changed \in SUBSET { v \in VarsOf(lp) : lp.nonbasicFlag[v] = 1 /\ v # variable_in } :
       /\ IF move_out < 0
            THEN lp.workLower[lp.basicIndex[r_out]] > 0 - HIGHS_CONST_INF
            ELSE lp.workUpper[lp.basicIndex[r_out]] < HIGHS_CONST_INF
       /\ \E o \in PivotOutcomes(lp, variable_in, r_out, move_out, changed) :
            LET d == updateHyperPivot(lp, use_hyper_chuzc, variable_in, r_out,
                                      move_out, o.dual, o.weight, changed, reset)
                r == hyperChooseColumnLp(d, use_hyper_chuzc, variable_in)
            IN  /\ lp' = r.lp
                /\ variable_in' = r.variable_in
       /\ row_out' = r_out
  /\ iteration_count' = iteration_count + 1
  /\ update_count' = update_count + 1
  /\ has_fresh_rebuild' = FALSE
  /\ pc' = "iterate"
  /\ UNCHANGED <<routine, return_status, inputs, utilities, history, solvePhase,
                 scaled_model_status, solve_bailout, highs_debug_level,
                 rebuild_reason, num_flip_since_rebuild,
                 num_primal_infeasibilities, bounds_perturbed,
                 allow_bound_perturbation, use_hyper_chuzc, computed_infeas>>

\* rebuild(), asked for by the update() before (update limit, synthetic
\* clock) or by a CHUZC that found no column: the factor may be found
\* singular, the count of infeasibilities may change the phase; the duals
\* are recomputed: they are the ones updateDual() kept when the phase stays,
\* and one value of HyperDuals for every nonbasic variable when it changes
HyperRebuild ==
  /\ pc \in {"iterate", "after_iterate"}
  /\ solvePhase \in {"PHASE_1", "PHASE_2"}
  /\ ~has_fresh_rebuild
  /\ \E rank_deficiency \in BOOLEAN, infeasible \in BOOLEAN :
       LET e == rebuild([Eng EXCEPT !.computed_infeas = IF infeasible THEN 1 ELSE 0],
                        rank_deficiency)
       IN  \E dual \in IF e.solvePhase = solvePhase THEN {lp.workDual}
                       ELSE { [v \in VarsOf(lp) |-> x] : x \in HyperDuals } :
             SetEng([e EXCEPT !.lp = IF e.solvePhase = "ERROR" THEN lp
                                     ELSE rebuildHyper(lp, dual, e.use_hyper_chuzc)])
  /\ pc' = "iterate"
  /\ UNCHANGED <<routine, return_status, inputs, utilities>>

NextHyper ==
  \/ HyperChuzc
  \/ HyperFlip
  \/ HyperPivot
  \/ HyperRebuild

SpecHyper == InitHyper /\ [][NextHyper]_vars

\* the candidates hyper-sparse CHUZC keeps
HyperCandidates(d) ==
  { d.hyper.hyper_chuzc_candidate[i] : i \in 1 .. Len(d.hyper.hyper_chuzc_candidate) }

\* chuzc() has run with use_hyper_chuzc
ChuzcHyperDone ==
  /\ pc = "iterate"
  /\ pc' \in {"pivot", "after_iterate"}
  /\ use_hyper_chuzc
  /\ solvePhase = "PHASE_2"

\* columns h and f have the same measure |workDual| / devex_weight, the
\* measure of no column being 0
SameMeasure(d, h, f) ==
  /\ h = NoVar <=> f = NoVar
  /\ (h # NoVar /\ f # NoVar) =>
        Abs(d.workDual[h]) * d.devex_weight[f] = Abs(d.workDual[f]) * d.devex_weight[h]

\* h is what a full CHUZC may select: a column of the best measure among the
\* attractive ones, none if there is none
BestAttractive(d, h) ==
  /\ h = NoVar <=> Attractive(d) = {}
  /\ h # NoVar =>
        /\ h \in Attractive(d)
        /\ \A v \in Attractive(d) :
              DualInf(d, h) * d.devex_weight[v] >= DualInf(d, v) * d.devex_weight[h]

\* every attractive column outside X has a measure of at most
\* max_hyper_chuzc_non_candidate_measure
NonCandidateBound(d, X) ==
  \A v \in Attractive(d) \ X :
     MeasureScale * DualInf(d, v)
       <= d.hyper.max_hyper_chuzc_non_candidate_measure * d.devex_weight[v]

HyperChuzcAsStated ==
  ChuzcHyperDone =>
     /\ SameMeasure(lp, variable_in', chooseColumn(lp))
     /\ NonCandidateBound(lp', HyperCandidates(lp'))

HyperChuzcStep ==
  ChuzcHyperDone =>
     /\ SameMeasure(lp, variable_in', chooseColumn(lp))
     /\ BestAttractive(lp, variable_in')
     /\ lp'.workDual = lp.workDual
     /\ lp'.devex_weight = lp.devex_weight
     /\ NonCandidateBound(lp', HyperCandidates(lp')
                                 \cup {lp'.hyper.max_changed_measure_column})

PivotWeightSquared(d, q, col) ==
  LET F == { r \in RowsOf(d) : d.devex_index[d.basicIndex[r]] = 1 }
      RECURSIVE SumSq(_)
      SumSq(S) == IF S = {} THEN 0
                  ELSE LET r == CHOOSE x \in S : TRUE
                       IN  col[r] * col[r] + SumSq(S \ {r})
  IN  (WeightUnit * WeightUnit * (SumSq(F) + 4 * d.devex_index[q])) \div 4

\* the stored weight of q exceeds bad_devex_weight_factor times the pivot
\* weight
BadStoredWeight(d, q, col) ==
  d.devex_weight[q] * d.devex_weight[q]
    > bad_devex_weight_factor * bad_devex_weight_factor * PivotWeightSquared(d, q, col)

BadWeightStep ==
  IF ~PivotStep THEN lp'.num_bad_devex_weight = lp.num_bad_devex_weight
  ELSE
    LET q == lp'.h_last.q
        counted == lp.num_bad_devex_weight
                     + (IF BadStoredWeight(lp, q, lp'.col_aq) THEN 1 ELSE 0)
    IN  /\ lp'.h_last.reset <=> counted > allowed_num_bad_devex_weight
        /\ ~lp'.h_last.reset => lp'.num_bad_devex_weight = counted
        /\ lp'.h_last.reset =>
              /\ lp'.num_bad_devex_weight = 0
              /\ \A v \in VarsOf(lp') :
                    /\ lp'.devex_weight[v] = WeightUnit
                    /\ lp'.devex_index[v] = lp'.nonbasicFlag[v] * lp'.nonbasicFlag[v]
              /\ lp'.nonbasicFlag[q] = 0
              /\ lp'.nonbasicFlag[lp'.h_last.v_out] = 1
        /\ lp'.num_bad_devex_weight <= allowed_num_bad_devex_weight

ShiftingStep ==
  /\ InfeasibleValueInStep
  /\ allow_bound_perturbation

\* the working bounds of d are the bounds of the LP widened by the
\* cumulative shifts, none of which is negative
WidenedByShifts(d) ==
  \A v \in VarsOf(d) :
     /\ d.workLowerShift[v] >= 0
     /\ d.workUpperShift[v] >= 0
     /\ d.workLower[v] = Minus(d.lpLower[v], d.workLowerShift[v])
     /\ d.workUpper[v] = Plus(d.lpUpper[v], d.workUpperShift[v])

ShiftBoundStep ==
  LET q == lp'.h_last.q
      value == lp'.h_last.would_be
      feasibility == (1 + random_value) * lp.primal_feasibility_tolerance
      lower == ValueInCost(lp, q, value) < 0
      infeasibility == IF lower THEN lp.workLower[q] - value
                       ELSE value - lp.workUpper[q]
      shift == infeasibility + feasibility
      others == \A v \in VarsOf(lp) \ {q} :
                   /\ lp'.workLower[v] = lp.workLower[v]
                   /\ lp'.workUpper[v] = lp.workUpper[v]
                   /\ lp'.workLowerShift[v] = lp.workLowerShift[v]
                   /\ lp'.workUpperShift[v] = lp.workUpperShift[v]
  IN  /\ ShiftingStep =>
           /\ infeasibility > lp.primal_feasibility_tolerance
           /\ shift > 0
           /\ others
           /\ bounds_perturbed'
           /\ IF lower
                THEN /\ lp'.workLower[q] = lp.workLower[q] - shift
                     /\ lp'.workLowerShift[q] = lp.workLowerShift[q] + shift
                     /\ value - lp'.workLower[q] = feasibility
                     /\ lp'.workUpper[q] = lp.workUpper[q]
                     /\ lp'.workUpperShift[q] = lp.workUpperShift[q]
                ELSE /\ lp'.workUpper[q] = lp.workUpper[q] + shift
                     /\ lp'.workUpperShift[q] = lp.workUpperShift[q] + shift
                     /\ lp'.workUpper[q] - value = feasibility
                     /\ lp'.workLower[q] = lp.workLower[q]
                     /\ lp'.workLowerShift[q] = lp.workLowerShift[q]
           /\ \E r \in RowsOf(lp') :
                 /\ lp'.basicIndex[r] = q
                 /\ lp'.baseValue[r] = value
                 /\ lp'.baseLower[r] = lp'.workLower[q]
                 /\ lp'.baseUpper[r] = lp'.workUpper[q]
      /\ (~ShiftingStep /\ ~CleanupStep) => ShiftsKept
      /\ WidenedByShifts(lp')

\* C32: shiftBound, called for an entering value that violates a bound by
\* more than the tolerance, moves the lower bound down (the upper bound up)
\* by infeasibility + (1 + random_value) * tolerance and adds that positive
\* amount to the cumulative shift, so that the value is inside the bound by
\* (1 + random_value) * tolerance; nothing but a shift widens a bound, and
\* every cumulative shift stays >= 0.
C32_ShiftBoundWidens == [][ShiftBoundStep]_vars

\* a pivot has shifted the lower bound of its entering variable, which is
\* now basic and inside the shifted bound by (1 + random_value) * tolerance
C32_Witness ==
  /\ pc = "after_iterate" /\ lp.h_last.kind = "pivot"
  /\ bounds_perturbed
  /\ \E v \in VarsOf(lp) :
        /\ v = lp.h_last.q
        /\ lp.workLowerShift[v] > 0
        /\ lp.workLower[v] < lp.lpLower[v]
        /\ \E r \in RowsOf(lp) :
              /\ lp.basicIndex[r] = v
              /\ lp.baseValue[r] - lp.baseLower[r]
                   = (1 + random_value) * lp.primal_feasibility_tolerance

\* the Phase 1 costs of d are those of the values under the primal
\* feasibility tolerance, and n counts the variables that have one
Phase1CostsAgree(d, n) ==
  /\ \A r \in RowsOf(d) :
        d.workCost[d.basicIndex[r]] = Violation(d, r, d.primal_feasibility_tolerance)
  /\ \A v \in VarsOf(d) : d.nonbasicFlag[v] = 1 => d.workCost[v] = 0
  /\ Cardinality({ v \in VarsOf(d) : d.workCost[v] # 0 }) = n

\* C33: in Phase 1, outside an iteration, the cost of the basic variable of
\* row r is -1 if its value is below the lower bound by more than the primal
\* feasibility tolerance, +1 if above the upper bound by more than it, and 0
\* otherwise, every nonbasic variable has cost 0, and the number of nonzero
\* costs is num_primal_infeasibilities, right after rebuild() and after each
\* Phase 1 update, whatever the primal and dual feasibility tolerances.
C33_Phase1CostsByPrimalTolerance ==
  (solvePhase = "PHASE_1" /\ pc \in {"iterate", "after_iterate"} /\ lp.has_dual)
     => Phase1CostsAgree(lp, num_primal_infeasibilities)

\* a rebuild() has returned: one that completes leaves fresh data, one that
\* finds the factor singular leaves the error phase
HyperRebuildReturns ==
  ~has_fresh_rebuild /\ (has_fresh_rebuild' \/ solvePhase' = "ERROR")

\* what the tail of rebuild() leaves of hyper-sparse CHUZC
HyperCleared ==
  /\ use_hyper_chuzc' <=> solvePhase' = "PHASE_2"
  /\ lp'.hyper.initialise_hyper_chuzc = use_hyper_chuzc'
  /\ lp'.hyper.max_hyper_chuzc_non_candidate_measure = NoMeasure
  /\ ~lp'.hyper.done_next_chuzc

\* done_next_chuzc only with use_hyper_chuzc, and no entry of
\* hyperChooseColumn() with done_next_chuzc set, before and after the step
HyperDoneFlags ==
  /\ lp.hyper.done_next_chuzc => use_hyper_chuzc
  /\ lp'.hyper.done_next_chuzc => use_hyper_chuzc'
  /\ ~lp.h_last.entered_done
  /\ ~lp'.h_last.entered_done

HyperFlagsAsStated ==
  /\ HyperDoneFlags
  /\ HyperRebuildReturns => HyperCleared

\* C34 (as stated): after every rebuild() use_hyper_chuzc is true exactly
\* when solvePhase = PHASE_2, the candidate heap is marked for
\* re-initialisation when hyper-sparse CHUZC is enabled,
\* max_hyper_chuzc_non_candidate_measure is reset and done_next_chuzc is
\* false; in every reachable state done_next_chuzc implies use_hyper_chuzc,
\* and hyperChooseColumn is never entered with done_next_chuzc set.
C34_AfterEveryRebuild == [][HyperFlagsAsStated]_vars

\* update() has applied a pivot
HyperPivotDone == pc = "pivot" /\ pc' = "iterate" /\ row_out' # NoRow

HyperFlagsStep ==
  /\ HyperDoneFlags
  /\ HyperRebuildReturns =>
        IF solvePhase' = "ERROR"
          THEN /\ lp' = lp
               /\ use_hyper_chuzc' = use_hyper_chuzc
          ELSE HyperCleared
  /\ (HyperPivotDone /\ lp'.h_last.reset) =>
        /\ lp'.hyper.initialise_hyper_chuzc = use_hyper_chuzc
        /\ lp'.hyper.max_hyper_chuzc_non_candidate_measure = NoMeasure
        /\ ~lp'.hyper.done_next_chuzc
        /\ variable_in' = variable_in
  /\ (ChuzcHyperDone /\ lp.hyper.initialise_hyper_chuzc) =>
        /\ ~lp'.hyper.initialise_hyper_chuzc
        /\ BestAttractive(lp, variable_in')
        /\ variable_in' # NoVar =>
              /\ variable_in' \in HyperCandidates(lp')
              /\ NonCandidateBound(lp', HyperCandidates(lp'))

\* C34: after every rebuild() that completes, use_hyper_chuzc is true exactly
\* when solvePhase = PHASE_2, initialise_hyper_chuzc is use_hyper_chuzc,
\* max_hyper_chuzc_non_candidate_measure is reset to -1 and done_next_chuzc
\* is false, while a rebuild() that finds the factor singular returns with
\* the error phase and leaves all of them as they were; a Devex reset in
\* update() clears the same records and the hyperChooseColumn() that closes
\* the update chooses nothing; the CHUZC that finds the heap marked scans
\* every column and builds the heap anew; in every reachable state
\* done_next_chuzc implies use_hyper_chuzc, and hyperChooseColumn is never
\* entered with done_next_chuzc set.
C34_HyperFlags == [][HyperFlagsStep]_vars

\* a rebuild() after pivots has completed in Phase 2: the heap of the
\* iterations before is still there, and marked to be built anew
C34_Witness ==
  /\ pc = "iterate"
  /\ has_fresh_rebuild
  /\ h_rebuild.reinvert
  /\ solvePhase = "PHASE_2"
  /\ use_hyper_chuzc
  /\ iteration_count >= 1
  /\ lp.hyper.initialise_hyper_chuzc
  /\ ~lp.hyper.done_next_chuzc
  /\ Len(lp.hyper.hyper_chuzc_candidate) > 0
  /\ lp.hyper.max_hyper_chuzc_non_candidate_measure = NoMeasure

(***************************************************************************)
(* The unbounded branch of solvePhase2().                                  *)
(***************************************************************************)
\* solvePhase2() is about to run its tail with an entering variable, no
\* leaving row and no flip
NoLeavingRowEnd ==
  /\ pc = "phase_end"
  /\ routine = "solvePhase2"
  /\ ~debugPrimalSimplex(Eng)
  /\ solvePhase = "PHASE_2"
  /\ variable_in # NoVar

ReassessStep ==
  /\ NoLeavingRowEnd /\ bounds_perturbed =>
        /\ h_cleanup = 0
        /\ h_cleanup' = 1
        /\ h_event' = "reassess"
        /\ solvePhase' = "PHASE_2"
        /\ ~bounds_perturbed'
        /\ ~allow_bound_perturbation'
  /\ NoLeavingRowEnd /\ h_cleanup >= 1 =>
        /\ ~bounds_perturbed
        /\ h_cleanup' = h_cleanup
        /\ h_event' = "unbounded"
        /\ solvePhase' = "EXIT"
  /\ (pc = "phase_end" /\ h_event' = "reassess") =>
        NoLeavingRowEnd /\ bounds_perturbed /\ h_cleanup = 0

\* C35: the branch of solvePhase2() that finds no leaving row and no flip
\* with perturbed bounds, runs cleanup() and goes on in Phase 2, is taken at
\* most once in a solve(): it is taken only when no cleanup() has run, and
\* once a cleanup() has run the same situation finds the bounds unperturbed
\* and takes the unbounded exit.
C35_ReassessOnce == [][ReassessStep]_vars

\* after the cleanup() that reassessed, no leaving row was found again and
\* the unbounded exit was taken
C35_Witness ==
  /\ pc = "after_phase"
  /\ routine = "solvePhase2"
  /\ h_cleanup = 1
  /\ h_chuzc.found
  /\ h_event = "unbounded"
  /\ solvePhase = "EXIT"
  /\ ~allow_bound_perturbation

\* C36: where solvePhase2() declares the LP primal unbounded (no leaving
\* row, no flip, bounds not perturbed) scaled_model_status is NOTSET, so
\* the assertions of the branch hold.
C36_UnboundedExitStatusNotSet ==
  (NoLeavingRowEnd /\ ~bounds_perturbed) => scaled_model_status = "NOTSET"

(***************************************************************************)
(* Pivots rejected for numerical trouble.                                  *)
(***************************************************************************)
\* iterate() has returned from assessPivot() with POSSIBLY_SINGULAR_BASIS
RejectedPivot ==
  /\ pc = "iterate"
  /\ pc' = "after_iterate"
  /\ rebuild_reason' = "POSSIBLY_SINGULAR_BASIS"

SingularBasisStep ==
  /\ RejectedPivot =>
        /\ update_count > 0
        /\ ~has_fresh_rebuild
        /\ update_count' = update_count
        /\ iteration_count' = iteration_count
        /\ h_update' = "none"
  /\ (pc = "after_iterate" /\ rebuild_reason = "POSSIBLY_SINGULAR_BASIS") =>
        /\ pc' \in {"rebuild", "after_phase"}
        /\ pc' = "after_phase" => solve_bailout'
        /\ rebuild_reason' = rebuild_reason
  /\ (pc = "rebuild" /\ rebuild_reason = "POSSIBLY_SINGULAR_BASIS") =>
        /\ h_rebuild'.reinvert
        /\ rebuild_reason' = "NO"
        /\ \/ update_count' = 0 /\ has_fresh_rebuild'
           \/ solvePhase' = "ERROR" /\ h_rebuild'.outcome = "rank_deficient"
  /\ update_count' > update_count =>
        /\ pc = "iterate"
        /\ update_count' = update_count + 1
        /\ h_update' = "pivot"
  /\ has_fresh_rebuild => update_count = 0
  /\ pc = "iterate" => rebuild_reason = "NO"

\* C37: a pivot is rejected with POSSIBLY_SINGULAR_BASIS only when
\* update_count > 0 and is then not applied; the rejection is followed by a
\* rebuild() that reinverts and leaves update_count = 0 (or by the end of the
\* solve), and update_count grows only by an applied pivot: between two
\* such rejections at least one pivot has been applied, so "reject, rebuild,
\* reject the same pivot" cannot repeat.
C37_NoRejectionWithoutUpdates == [][SingularBasisStep]_vars

\* a pivot was rejected after a reinversion and a pivot applied since
C37_Witness ==
  /\ pc = "after_iterate"
  /\ rebuild_reason = "POSSIBLY_SINGULAR_BASIS"
  /\ update_count >= 1
  /\ h_rebuild.reinvert
  /\ h_update = "none"

(***************************************************************************)
(* The sort utilities of util/HighsSort.cpp.  A call of maxheapsort() is   *)
(* followed loop pass by loop pass: build_maxheap(), max_heapsort() and    *)
(* the while loop of max_heapify().  The arrays are used from position 1.  *)
(* The values of the double overload are the integers 0 .. MaxSortValue    *)
(* and one NaN, which compares false with everything; those of the int     *)
(* overload are the integers alone.                                        *)
(***************************************************************************)
MaxSortLen == 4
MaxSortValue == 2
NaN == MaxSortValue + 1
SortIndices == {0, 1}

\* a > b and a <= b on doubles
Greater(a, b) == a # NaN /\ b # NaN /\ a > b
LessEq(a, b) == a # NaN /\ b # NaN /\ a <= b

\* the entry of max_heapify(heap_v, heap_i, i, n) called from caller
EnterMaxHeapify(s, i, n, caller) ==
  [s EXCEPT !.at = "max_heapify", !.caller = caller, !.heap_n = n,
            !.temp_v = s.heap_v[i],
            !.temp_i = IF s.overload = "double" THEN s.heap_i[i] ELSE 0,
            !.j = 2 * i]

\* the last statements of max_heapify(), and the i-- of the loop of its caller
LeaveMaxHeapify(s) ==
  LET s1 == [s EXCEPT !.heap_v[s.j \div 2] = s.temp_v,
                      !.at = s.caller, !.i = s.i - 1]
  IN  IF s.overload = "double"
        THEN [s1 EXCEPT !.heap_i[s.j \div 2] = s.temp_i]
        ELSE s1

\* one pass of the while loop of max_heapify()
max_heapify(s) ==
  IF s.j <= s.heap_n
    THEN LET j == IF s.j < s.heap_n /\ Greater(s.heap_v[s.j + 1], s.heap_v[s.j])
                    THEN s.j + 1 ELSE s.j
             s1 == [s EXCEPT !.j = j]
         IN  IF Greater(s.temp_v, s.heap_v[j]) THEN LeaveMaxHeapify(s1)
             ELSE IF LessEq(s.temp_v, s.heap_v[j])
               THEN LET s2 == [s1 EXCEPT !.heap_v[j \div 2] = s.heap_v[j],
                                         !.j = 2 * j]
                    IN  IF s.overload = "double"
                          THEN [s2 EXCEPT !.heap_i[j \div 2] = s.heap_i[j]]
                          ELSE s2
             ELSE s1
    ELSE LeaveMaxHeapify(s)

\* one pass of the for loop of build_maxheap(); max_heapsort() follows it
build_maxheap(s) ==
  IF s.i >= 1 THEN EnterMaxHeapify(s, s.i, s.n, "build_maxheap")
  ELSE [s EXCEPT !.at = "max_heapsort", !.i = s.n]

\* one pass of the for loop of max_heapsort()
max_heapsort(s) ==
  IF s.i >= 2
    THEN LET s1 == [s EXCEPT !.heap_v[s.i] = s.heap_v[1],
                             !.heap_v[1] = s.heap_v[s.i]]
             s2 == IF s.overload = "double"
                     THEN [s1 EXCEPT !.heap_i[s.i] = s.heap_i[1],
                                     !.heap_i[1] = s.heap_i[s.i]]
                     ELSE s1
         IN  EnterMaxHeapify(s2, 1, s.i - 1, "max_heapsort")
  ELSE [s EXCEPT !.at = "returned"]

\* maxheapsort(heap_v, heap_i, n), or maxheapsort(heap_v, n), is called: the
\* arguments are kept as in_v and in_i for the properties
maxheapsort(overload, heap_v, heap_i, n) ==
  [overload |-> overload, n |-> n, heap_v |-> heap_v, heap_i |-> heap_i,
   in_v |-> heap_v, in_i |-> heap_i,
   at |-> "build_maxheap", i |-> n \div 2,
   caller |-> "none", heap_n |-> 0, j |-> 0, temp_v |-> 0, temp_i |-> 0]

InitSort ==
  /\ pc = "idle"
  /\ routine = "none"
  /\ return_status = "none"
  /\ numRow = 0
  /\ use_bound_perturbation = FALSE
  /\ has_invert = FALSE
  /\ data_ok = TRUE
  /\ highs_debug_level = FALSE
  /\ solvePhase = "UNKNOWN"
  /\ scaled_model_status = "NOTSET"
  /\ solve_bailout = FALSE
  /\ rebuild_reason = "NO"
  /\ variable_in = NoVar
  /\ row_out = NoRow
  /\ has_fresh_rebuild = FALSE
  /\ num_flip_since_rebuild = 0
  /\ update_count = 0
  /\ iteration_count = 0
  /\ computed_infeas = 0
  /\ num_primal_infeasibilities = 0
  /\ bounds_perturbed = FALSE
  /\ allow_bound_perturbation = FALSE
  /\ use_hyper_chuzc = FALSE
  /\ lp = NoLp
  /\ h_dirty = FALSE
  /\ h_chuzc = NoChuzc
  /\ h_update = "none"
  /\ h_cleanup = 0
  /\ h_event = "none"
  /\ h_rebuild = NoRebuild
  /\ h_iterate_error = FALSE
  /\ h_bail_status = "none"
  /\ consistent = NoConsistent
  /\ \E n \in 0 .. MaxSortLen :
       \/ \E heap_v \in [1 .. n -> 0 .. MaxSortValue] :
            sort = maxheapsort("int", heap_v, << >>, n)
       \/ \E heap_v \in [1 .. n -> (0 .. MaxSortValue) \cup {NaN}],
             heap_i \in [1 .. n -> SortIndices] :
            sort = maxheapsort("double", heap_v, heap_i, n)

SolveIdle == <<pc, routine, return_status, inputs, engine, history>>

BuildMaxheap ==
  /\ sort.at = "build_maxheap"
  /\ sort' = build_maxheap(sort)
  /\ UNCHANGED <<SolveIdle, consistent>>

MaxHeapify ==
  /\ sort.at = "max_heapify"
  /\ sort' = max_heapify(sort)
  /\ UNCHANGED <<SolveIdle, consistent>>

MaxHeapsort ==
  /\ sort.at = "max_heapsort"
  /\ sort' = max_heapsort(sort)
  /\ UNCHANGED <<SolveIdle, consistent>>

NextSort ==
  \/ BuildMaxheap
  \/ MaxHeapify
  \/ MaxHeapsort

\* a call that is not blocked runs on: the loops are taken pass by pass
SpecSort == InitSort /\ [][NextSort]_vars /\ WF_vars(NextSort)

\* heap_v[1..n] is in nondecreasing order
SortedValues(s) ==
  \A k \in 1 .. (s.n - 1) : LessEq(s.heap_v[k], s.heap_v[k + 1])

\* the pairs (values, for the int overload) after the call are those before
\* it, each as often
PermutationOfInput(s) ==
  LET pair(v, ix, k) == IF s.overload = "double" THEN <<v[k], ix[k]>> ELSE <<v[k]>>
      count(v, ix, x) == Cardinality({ k \in 1 .. s.n : pair(v, ix, k) = x })
  IN  \A k \in 1 .. s.n :
         count(s.heap_v, s.heap_i, pair(s.in_v, s.in_i, k))
           = count(s.in_v, s.in_i, pair(s.in_v, s.in_i, k))

\* C38: every call of maxheapsort(heap_v, heap_i, n), and of the int
\* overload, returns, with heap_v[1..n] in nondecreasing order and the pairs
\* (heap_v[k], heap_i[k]) a permutation of the pairs passed in.
C38_MaxheapsortSorts ==
  <>(sort.at = "returned" /\ SortedValues(sort) /\ PermutationOfInput(sort))

(***************************************************************************)
(* isSolutionConsistent() of lp_data/HighsLp.cpp.  The vectors of the      *)
(* solution are sequences of at most MaxDim entries; numCol_ and numRow_   *)
(* are ints, converted to size_t for the comparisons; size_t is given      *)
(* SizeBits bits, enough to hold every length and every nonnegative        *)
(* dimension followed, so that a negative dimension becomes a number above *)
(* them all, as with the 64 bits of the source's platforms.                *)
(***************************************************************************)
MaxDim == 2
SizeBits == 16

\* (size_t)x for an int x
SizeT(x) == IF x < 0 THEN x + 2 ^ SizeBits ELSE x

isSolutionConsistent(l, solution) ==
  \/ Len(solution.colDual_) = SizeT(l.numCol_)
  \/ Len(solution.colValue_) = SizeT(l.numCol_)
  \/ Len(solution.rowDual_) = SizeT(l.numRow_)
  \/ Len(solution.rowValue_) = SizeT(l.numRow_)

\* the vectors of k entries
Vector(k) == [i \in 1 .. k |-> 0]

InitConsistent ==
  /\ pc = "idle"
  /\ routine = "none"
  /\ return_status = "none"
  /\ numRow = 0
  /\ use_bound_perturbation = FALSE
  /\ has_invert = FALSE
  /\ data_ok = TRUE
  /\ highs_debug_level = FALSE
  /\ solvePhase = "UNKNOWN"
  /\ scaled_model_status = "NOTSET"
  /\ solve_bailout = FALSE
  /\ rebuild_reason = "NO"
  /\ variable_in = NoVar
  /\ row_out = NoRow
  /\ has_fresh_rebuild = FALSE
  /\ num_flip_since_rebuild = 0
  /\ update_count = 0
  /\ iteration_count = 0
  /\ computed_infeas = 0
  /\ num_primal_infeasibilities = 0
  /\ bounds_perturbed = FALSE
  /\ allow_bound_perturbation = FALSE
  /\ use_hyper_chuzc = FALSE
  /\ lp = NoLp
  /\ h_dirty = FALSE
  /\ h_chuzc = NoChuzc
  /\ h_update = "none"
  /\ h_cleanup = 0
  /\ h_event = "none"
  /\ h_rebuild = NoRebuild
  /\ h_iterate_error = FALSE
  /\ h_bail_status = "none"
  /\ sort = NoSort
  /\ \E numCol_ \in (0 - 1) .. MaxDim, numRow_ \in (0 - 1) .. MaxDim,
        cv \in 0 .. MaxDim, cd \in 0 .. MaxDim,
        rv \in 0 .. MaxDim, rd \in 0 .. MaxDim :
       consistent = [at |-> "called",
                     lp |-> [numCol_ |-> numCol_, numRow_ |-> numRow_],
                     solution |-> [colValue_ |-> Vector(cv), colDual_ |-> Vector(cd),
                                   rowValue_ |-> Vector(rv), rowDual_ |-> Vector(rd)],
                     result |-> FALSE]

IsSolutionConsistent ==
  /\ consistent.at = "called"
  /\ consistent' = [consistent EXCEPT
                      !.at = "returned",
                      !.result = isSolutionConsistent(consistent.lp, consistent.solution)]
  /\ UNCHANGED <<SolveIdle, sort>>

NextConsistent ==
  \/ IsSolutionConsistent

SpecConsistent == InitConsistent /\ [][NextConsistent]_vars

\* C39: isSolutionConsistent(lp, solution) returns true if and only if
\* colValue_ and colDual_ have numCol_ entries and rowValue_ and rowDual_
\* have numRow_ entries.
C39_ConsistentIffAllFour ==
  consistent.at = "returned" =>
    (consistent.result <=>
       /\ Len(consistent.solution.colValue_) = consistent.lp.numCol_
       /\ Len(consistent.solution.colDual_) = consistent.lp.numCol_
       /\ Len(consistent.solution.rowValue_) = consistent.lp.numRow_
       /\ Len(consistent.solution.rowDual_) = consistent.lp.numRow_)

=============================================================================
